---- MODULE Spec2Model ----
(***************************************************************************)
(* Model of the per-frame simulation engines of the hillside visualizer:   *)
(* the abelian sandpile (sandpile/cell.js, sandpile/simulation.js) and the *)
(* Life/Lenia ecosystem (clouds/simulation.js).                            *)
(*                                                                         *)
(* Real-valued quantities are kept as scaled integers: earthquake          *)
(* coordinates and radii in half cells, audio band levels in hundredths,   *)
(* times in milliseconds.                                                  *)
(***************************************************************************)
EXTENDS Integers, Sequences, FiniteSets, TLC

\* ------------------------------------------------------------------------
\* Bounds of the model
\* ------------------------------------------------------------------------
\* largest pile a start grid holds in one cell
MaxPile == 9
\* grid of the runs that set their grains directly (no audio player)
GridW == 5
GridH == 5
\* grid of the runs that start from the constructor with an audio player
AudioGridW == 3
AudioGridH == 10
\* grains injected by addRandomSand in one behaviour
MaxInject == 5
\* frames drawn in one behaviour
MaxFrames == 2

\* grid of the Life/Lenia runs
CloudsW == 16
CloudsH == 16
\* updateLifeGrid calls in one behaviour
MaxGenerations == 4
\* stand-in for CloudsSimulation.leniaRadius (13 in the code)
leniaRadius == 2
\* stand-in for CloudsSimulation.regionSize (16 in the code)
regionSize == 4
\* frames of one behaviour in which the audio player delivers an analysis
MaxPlaying == 1
\* onResize calls in one behaviour
MaxResizes == 1

\* ------------------------------------------------------------------------
\* Program constants
\* ------------------------------------------------------------------------
\* SandpileSimulation.maxTopplesPerFrame
maxTopplesPerFrame == 50
\* wave cap of the loop in SandpileSimulation.draw
MaxWavesPerFrame == 10
\* instability threshold of SandpileCell
ToppleThreshold == 4

VARIABLES
    gridWidth,        \* SandpileSimulation.gridWidth
    gridHeight,       \* SandpileSimulation.gridHeight
    grid,             \* grid[y][x] = grains of the cell at column x, row y
    pc,               \* position inside draw(): "idle" between frames
    stillToppling,    \* local of draw()
    safetyCounter,    \* local of draw()
    preGrid,          \* grid at the start of the last toppling wave
    waveLog,          \* topples of the last wave, in processing order
    waveLost,         \* grains the last wave sent to off-grid positions
    grid0,            \* grid the behaviour started from
    frames,           \* draw() calls started so far
    audioPlayer,      \* BaseSimulation.audioPlayer: TRUE when not null
    audioAnalysis,    \* local of updateAudioReactiveBehavior: the bands read this frame
    deltaTime,        \* local of draw(), in ms
    lastBassLevel,    \* in hundredths
    lastTrebleLevel,  \* in hundredths
    sandAdditionTimer,    \* in ms
    sandAdditionInterval, \* in ms
    sandToAdd,        \* iterations left in the loop of addRandomSand
    injected,         \* grains injected so far in this behaviour
    quake,            \* locals of triggerEarthquake, coordinates in half cells
    threw,            \* the last draw() ended in a TypeError
    pending,          \* cells of newTopples a shuffled wave has still to process
    cloudsWidth,      \* CloudsSimulation.gridWidth
    cloudsHeight,     \* CloudsSimulation.gridHeight
    lifeGrid,         \* lifeGrid[y][x] in {0, 1}
    leniaGrid,        \* leniaGrid[y][x], in thousandths
    gliders,          \* CloudsSimulation.gliders
    staticPatterns,   \* CloudsSimulation.staticPatterns
    cpc,              \* position inside CloudsSimulation.draw()
    generation,       \* updateLifeGrid calls so far
    lifeGrid0,        \* lifeGrid after seeding
    prevLifeGrid,     \* lifeGrid before the last updateLifeGrid
    beforeLenia,      \* leniaGrid and the keys of the kernel cache before the last
                      \* updateLeniaGridOptimized
    lastKills,        \* cells the last updateLifeGrid killed by feeding
    cloudsAudio,      \* audioPlayer of the CloudsSimulation: TRUE when not null
    cloudsLastBass,   \* CloudsSimulation.lastBassLevel, in hundredths
    cloudsLastTreble, \* CloudsSimulation.lastTrebleLevel, in hundredths
    leniaAlpha,       \* in thousandths
    leniaGrowthMu,    \* in thousandths
    feedingRate,      \* in millionths
    predationRate,    \* in millionths
    ecosystemPulse,   \* in thousandths
    leniaKernelCache, \* keys in insertion order and the density kept for each key
    framesSinceCleanup,
    cloudsThrew,      \* the last CloudsSimulation.draw() ended in a TypeError
    playing,          \* frames so far in which the player returned an analysis
    undisturbed,      \* no Lenia value was positive and no glider was spawned so far
    timePhase,        \* Math.sin(Date.now() * 0.001) * 0.02 during these frames, in thousandths
    leniaOps,         \* the operations that have changed the Lenia grid so far
    zeroFrames,       \* frames in a row, up to the last one, that ended with no Lenia mass
    cloudsSeed,       \* what seedInitialPatterns seeds in this behaviour
    resizes,          \* onResize calls so far
    sims,             \* the simulation objects created so far, in order of creation
    nextRaf,          \* the handle the next requestAnimationFrame call returns
    lastCall,         \* the last method called on the simulation
    currentVisualization, \* VisualizationManager: index into sims, 0 for null
    currentType,      \* VisualizationManager.currentType
    procs,            \* the calls of switchVisualization and handleMenuClick in flight
    buttonsDisabled,  \* button.disabled of the menu buttons
    activeButton,     \* the button that carries the class active
    boids,            \* health, isDead and respawnTimer of each boid
    boidCall,         \* the last method called on a boid
    forEach,          \* processToppling in steps: positions left, topplesThisFrame,
                      \* and the topples of all waves of the frame so far
    media,            \* AudioPlayer.audio (non-null) and isPlaying, and
                      \* VisualizationManager.clickToStartShown and audioLoaded
    beat              \* AudioPlayer: beatHistory, lastBeatTime, beatDetected, and Date.now()

sandVars == <<gridWidth, gridHeight, grid, pc, stillToppling, safetyCounter,
              preGrid, waveLog, waveLost, grid0, frames, audioPlayer,
              audioAnalysis, deltaTime, lastBassLevel, lastTrebleLevel,
              sandAdditionTimer, sandAdditionInterval, sandToAdd, injected,
              quake, threw>>

\* variables the sandpile frame leaves alone
cloudsVars == <<cloudsWidth, cloudsHeight, lifeGrid, leniaGrid, gliders,
                staticPatterns, cpc, generation, lifeGrid0, prevLifeGrid,
                beforeLenia, lastKills,
                cloudsAudio, cloudsLastBass, cloudsLastTreble, leniaAlpha,
                leniaGrowthMu, feedingRate, predationRate, ecosystemPulse,
                leniaKernelCache, framesSinceCleanup, cloudsThrew, playing,
                undisturbed, timePhase, leniaOps, zeroFrames,
                cloudsSeed, resizes>>

\* VisualizationManager, MenuManager and the animation loops
appVars == <<sims, nextRaf, lastCall, currentVisualization, currentType, procs,
             buttonsDisabled, activeButton, media>>

boidVars == <<boids, boidCall>>

otherVars == <<appVars, boidVars, forEach, beat>>

outsideSand == <<pending, cloudsVars, otherVars>>

vars == <<sandVars, outsideSand>>

\* ------------------------------------------------------------------------
\* SandpileCell
\* ------------------------------------------------------------------------
\* SandpileCell.addGrains
addGrains(grains, count) == grains + count

\* isUnstable with the threshold off by one
isUnstableAboveFour(grains) == grains > ToppleThreshold

\* SandpileCell.isUnstable
isUnstable(grains) == grains >= ToppleThreshold

\* topple that empties the cell instead of keeping the remainder
toppleEmptying(grains) ==
    IF ~isUnstable(grains)
    THEN [grains |-> grains, perNeighbor |-> 0]
    ELSE [grains |-> 0, perNeighbor |-> grains \div 4]

\* SandpileCell.topple: the grains left in the cell and the return value
topple(grains) ==
    IF ~isUnstable(grains)
    THEN [grains |-> grains, perNeighbor |-> 0]
    ELSE LET grainsToDistribute == (grains \div 4) * 4
         IN  [grains |-> grains - grainsToDistribute,
              perNeighbor |-> grainsToDistribute \div 4]

\* getNeighborPositions with the upper neighbour taken on the diagonal
getNeighborPositionsDiagonal(x, y) ==
    << <<x - 1, y>>, <<x + 1, y>>, <<x - 1, y - 1>>, <<x, y + 1>> >>

\* SandpileCell.getNeighborPositions: left, right, up, down
getNeighborPositions(x, y) ==
    << <<x - 1, y>>, <<x + 1, y>>, <<x, y - 1>>, <<x, y + 1>> >>

\* ------------------------------------------------------------------------
\* SandpileSimulation
\* ------------------------------------------------------------------------
\* SandpileSimulation.isValidGridPosition
isValidGridPosition(x, y, w, h) == x >= 0 /\ x < w /\ y >= 0 /\ y < h

EmptyGrid(w, h) == [y \in 0..(h - 1) |-> [x \in 0..(w - 1) |-> 0]]

SetCell(g, x, y, v) == [g EXCEPT ![y] = [@ EXCEPT ![x] = v]]

\* the sum of the elements lo .. hi of a sequence, by halves
RECURSIVE SumRange(_, _, _)
SumRange(s, lo, hi) ==
    IF lo > hi THEN 0
    ELSE IF lo = hi THEN s[lo]
    ELSE SumRange(s, lo, (lo + hi) \div 2) + SumRange(s, (lo + hi) \div 2 + 1, hi)

SumSeq(s) == SumRange(s, 1, Len(s))

\* all cell positions in the scan order of the nested y/x loops
RowMajor(w, h) == [i \in 1..(w * h) |-> <<(i - 1) % w, (i - 1) \div w>>]

TotalGrains(g, w, h) ==
    SumSeq([i \in 1..(w * h) |-> g[RowMajor(w, h)[i][2]][RowMajor(w, h)[i][1]]])

\* newTopples that passes over the cells holding exactly the threshold
newTopplesAboveThreshold(g, w, h) ==
    SelectSeq(RowMajor(w, h), LAMBDA p : g[p[2]][p[1]] > ToppleThreshold)

\* first loop of processToppling: the unstable cells, in scan order
newTopples(g, w, h) ==
    SelectSeq(RowMajor(w, h), LAMBDA p : isUnstable(g[p[2]][p[1]]))

\* ToppleAt without the test of topplesThisFrame against maxTopplesPerFrame
ToppleAtUncapped(st, pos, w, h) ==
    IF FALSE
    THEN st
    ELSE LET x == pos[1]
             y == pos[2]
             before == st.grid[y][x]
             t == topple(before)
             g1 == SetCell(st.grid, x, y, t.grains)
             nbrs == getNeighborPositions(x, y)
             inGrid == {i \in 1..4 : isValidGridPosition(nbrs[i][1], nbrs[i][2], w, h)}
             g2 == [yy \in 0..(h - 1) |-> [xx \in 0..(w - 1) |->
                      IF \E i \in inGrid : nbrs[i] = <<xx, yy>>
                      THEN addGrains(g1[yy][xx], t.perNeighbor)
                      ELSE g1[yy][xx]]]
         IN  IF t.perNeighbor > 0
             THEN [grid |-> g2,
                   topplesThisFrame |-> st.topplesThisFrame + 1,
                   lost |-> st.lost + t.perNeighbor * (4 - Cardinality(inGrid)),
                   log |-> Append(st.log,
                              [x |-> x, y |-> y, before |-> before,
                               removed |-> before - t.grains,
                               perNeighbor |-> t.perNeighbor,
                               given |-> [i \in inGrid |->
                                   g2[nbrs[i][2]][nbrs[i][1]] - g1[nbrs[i][2]][nbrs[i][1]]]])]
             ELSE [st EXCEPT !.grid = g1]

\* body of the forEach of processToppling for one position of newTopples
ToppleAt(st, pos, w, h) ==
    IF st.topplesThisFrame >= maxTopplesPerFrame
    THEN st
    ELSE LET x == pos[1]
             y == pos[2]
             before == st.grid[y][x]
             t == topple(before)
             g1 == SetCell(st.grid, x, y, t.grains)
             nbrs == getNeighborPositions(x, y)
             inGrid == {i \in 1..4 : isValidGridPosition(nbrs[i][1], nbrs[i][2], w, h)}
             g2 == [yy \in 0..(h - 1) |-> [xx \in 0..(w - 1) |->
                      IF \E i \in inGrid : nbrs[i] = <<xx, yy>>
                      THEN addGrains(g1[yy][xx], t.perNeighbor)
                      ELSE g1[yy][xx]]]
         IN  IF t.perNeighbor > 0
             THEN [grid |-> g2,
                   topplesThisFrame |-> st.topplesThisFrame + 1,
                   lost |-> st.lost + t.perNeighbor * (4 - Cardinality(inGrid)),
                   log |-> Append(st.log,
                              [x |-> x, y |-> y, before |-> before,
                               removed |-> before - t.grains,
                               perNeighbor |-> t.perNeighbor,
                               given |-> [i \in inGrid |->
                                   g2[nbrs[i][2]][nbrs[i][1]] - g1[nbrs[i][2]][nbrs[i][1]]]])]
             ELSE [st EXCEPT !.grid = g1]

RECURSIVE ToppleAll(_, _, _, _)
ToppleAll(st, todo, w, h) ==
    IF todo = <<>> THEN st
    ELSE ToppleAll(ToppleAt(st, Head(todo), w, h), Tail(todo), w, h)

\* SandpileSimulation.processToppling: one toppling wave
processToppling(g, w, h) ==
    LET st == ToppleAll([grid |-> g, topplesThisFrame |-> 0, lost |-> 0, log |-> <<>>],
                        newTopples(g, w, h), w, h)
    IN  [grid |-> st.grid, lost |-> st.lost, log |-> st.log,
         result |-> st.topplesThisFrame > 0]

Min(a, b) == IF a < b THEN a ELSE b
Max(a, b) == IF a > b THEN a ELSE b

\* SandpileSimulation.generateSandPileLocations: the five pile centres, in order
sandPileLocations(w, h) ==
    LET margin == (Min(w, h) * 2) \div 10
    IN  << <<w \div 2, h \div 2>>,
           <<margin, margin>>,
           <<w - margin, margin>>,
           <<margin, h - margin>>,
           <<w - margin, h - margin>> >>

\* SandpileSimulation.addInitialSand
addInitialSand(g, w, h) ==
    LET centerX == w \div 2
        centerY == h \div 2
        corners == << <<5, 5>>, <<w - 6, 5>>, <<5, h - 6>>, <<w - 6, h - 6>> >>
        seeds(x, y) == Cardinality({i \in 1..4 : corners[i] = <<x, y>>})
    IN  [y \in 0..(h - 1) |-> [x \in 0..(w - 1) |->
            LET c == IF x >= centerX - 2 /\ x <= centerX + 2
                        /\ y >= centerY - 2 /\ y <= centerY + 2
                     THEN addGrains(g[y][x], 1) ELSE g[y][x]
            IN  addGrains(c, 2 * seeds(x, y))]]

\* one iteration of the loop of SandpileSimulation.addRandomSand: pile is the
\* index the weighted draw selects, ox and oy are
\* Math.floor((Math.random() - 0.5) * 2 * spreadRadius), i.e. -1 or 0
addRandomSandOnce(g, w, h, pile, ox, oy) ==
    LET selectedLocation == sandPileLocations(w, h)[pile]
        x == Max(0, Min(w - 1, selectedLocation[1] + ox))
        y == Max(0, Min(h - 1, selectedLocation[2] + oy))
    IN  SetCell(g, x, y, addGrains(g[y][x], 1))

\* ------------------------------------------------------------------------
\* Inputs of a frame
\* ------------------------------------------------------------------------
\* bass, mid and treble levels the audio player reports, in hundredths
BassLevels == {46, 52}
MidLevels == {0, 50}
TrebleLevels == {0, 80}
\* frame times, in ms
DeltaTimes == {16, 40}
\* values of the pile draw and of the two offsets of addRandomSand
PileDraws == {1, 2}
SpreadDraws == {-1, 0}
\* radius of an earthquake in half cells: 8 + Math.random() * 12 lies in [8, 20)
QuakeRadii == {16, 17}
\* pairs of values of Math.floor(v + (Math.random() - 0.5) * 4) - v, for the
\* column and the row of the cell that receives the grains
NearbyDraws == {<<-2, -2>>, <<1, 0>>}

\* getAudioAnalysis() returned null
NullAnalysis == [present |-> FALSE, bass |-> 0, mid |-> 0, treble |-> 0]
\* triggerEarthquake is not running
NoQuake == [ex |-> 0, ey |-> 0, r2 |-> 0, x2 |-> 0, y2 |-> 0]

\* the grains one start grid holds: a pile of up to MaxPile grains at the cell
\* (2,2), at a corner or on the right edge, and a pile of 0, 4 or 5 grains at (1,2)
StartGrids(w, h) ==
    LET cells == {<<2, 2>>, <<0, 0>>, <<w - 1, 2>>}
    IN  {[y \in 0..(h - 1) |-> [x \in 0..(w - 1) |->
            (IF <<x, y>> = a THEN na ELSE 0)
            + (IF <<x, y>> = <<1, 2>> THEN nb ELSE 0)]] :
         a \in cells, na \in 0..MaxPile, nb \in {0, 4, 5}}

\* bass burst of updateAudioReactiveBehavior: the grains it asks addRandomSand for
bassBurst(bass, last) ==
    LET bassIncrease == bass - last
    IN  IF bassIncrease > 5 /\ bass > 50
        THEN ((bassIncrease * 15) \div 100) + 2
        ELSE 0

\* the fields and locals of a simulation that has drawn no frame yet
InitFrame ==
    /\ grid0 = grid
    /\ preGrid = grid
    /\ pc = "idle"
    /\ stillToppling = FALSE /\ safetyCounter = 0
    /\ waveLog = <<>> /\ waveLost = 0
    /\ frames = 0
    /\ audioAnalysis = NullAnalysis /\ deltaTime = 0
    /\ lastBassLevel = 0 /\ lastTrebleLevel = 0
    /\ sandAdditionTimer = 0 /\ sandAdditionInterval = 50
    /\ sandToAdd = 0 /\ injected = 0
    /\ quake = NoQuake
    /\ threw = FALSE

InitSand ==
    /\ \/ /\ audioPlayer = FALSE
          /\ gridWidth = GridW /\ gridHeight = GridH
          /\ grid \in StartGrids(GridW, GridH)
       \/ /\ audioPlayer = TRUE
          /\ gridWidth = AudioGridW /\ gridHeight = AudioGridH
          /\ grid = addInitialSand(EmptyGrid(AudioGridW, AudioGridH), AudioGridW, AudioGridH)
    /\ InitFrame


\* new AudioPlayer() and the loading state new VisualizationManager() sets
NewMedia == [audio |-> FALSE, isPlaying |-> FALSE, clickToStartShown |-> FALSE,
             audioLoaded |-> FALSE]

\* no VisualizationManager and no MenuManager has been constructed
NoApp ==
    /\ sims = <<>> /\ nextRaf = 1 /\ lastCall = "none"
    /\ currentVisualization = 0 /\ currentType = "none"
    /\ procs = <<>>
    /\ buttonsDisabled = FALSE /\ activeButton = "none"
    /\ media = NewMedia

\* no Boid has been constructed
NoBoids == boids = <<>> /\ boidCall = "none"

\* no processToppling call is under way
NoForEach == forEach = [todo |-> <<>>, topplesThisFrame |-> 0, toppledInFrame |-> 0]

\* no detectBeat call is followed
NoBeat == beat = [beatHistory |-> <<>>, lastBeatTime |-> 0, beatDetected |-> FALSE,
                  now |-> 0]

NoOthers == NoApp /\ NoBoids /\ NoForEach /\ NoBeat

\* no CloudsSimulation has been constructed
NoClouds ==
    /\ cloudsWidth = 0 /\ cloudsHeight = 0
    /\ lifeGrid = <<>> /\ leniaGrid = <<>>
    /\ gliders = <<>> /\ staticPatterns = <<>>
    /\ cpc = "none"
    /\ generation = 0
    /\ lifeGrid0 = <<>> /\ prevLifeGrid = <<>> /\ beforeLenia = [grid |-> <<>>, cached |-> {}]
    /\ lastKills = {}
    /\ cloudsAudio = FALSE
    /\ cloudsLastBass = 0 /\ cloudsLastTreble = 0
    /\ leniaAlpha = 0 /\ leniaGrowthMu = 0
    /\ feedingRate = 0 /\ predationRate = 0
    /\ ecosystemPulse = 0
    /\ leniaKernelCache = [keys |-> <<>>, value |-> <<>>]
    /\ framesSinceCleanup = 0
    /\ cloudsThrew = FALSE
    /\ playing = 0
    /\ undisturbed = TRUE
    /\ timePhase = 0
    /\ leniaOps = {}
    /\ zeroFrames = 0
    /\ cloudsSeed = [gliders |-> <<>>, blocks |-> <<>>, organisms |-> <<>>]
    /\ resizes = 0

InitOutsideSand ==
    /\ pending = {}
    /\ NoClouds
    /\ NoOthers

waveVars == <<stillToppling, safetyCounter, preGrid, waveLog, waveLost>>
audioVars == <<lastBassLevel, lastTrebleLevel, sandAdditionTimer, sandAdditionInterval>>
dimVars == <<gridWidth, gridHeight, grid0, audioPlayer>>

\* draw() up to the bass burst of updateAudioReactiveBehavior
DrawBegin(analysis, dt) ==
    /\ pc = "idle"
    /\ frames < MaxFrames
    /\ frames' = frames + 1
    /\ deltaTime' = dt
    /\ threw' = FALSE
    /\ IF ~audioPlayer \/ ~analysis.present
       THEN /\ audioAnalysis' = NullAnalysis
            /\ pc' = "topple"
            /\ stillToppling' = TRUE
            /\ safetyCounter' = 0
            /\ UNCHANGED <<grid, preGrid, waveLog, waveLost, audioVars, sandToAdd,
                           injected, quake, dimVars, outsideSand>>
       ELSE /\ injected + bassBurst(analysis.bass, lastBassLevel) + 3 <= MaxInject
            /\ audioAnalysis' = analysis
            /\ sandToAdd' = bassBurst(analysis.bass, lastBassLevel)
            /\ lastBassLevel' = analysis.bass
            /\ pc' = "bassSand"
            /\ UNCHANGED <<grid, waveVars, lastTrebleLevel, sandAdditionTimer,
                           sandAdditionInterval, injected, quake, dimVars, outsideSand>>

\* one iteration of the loop of addRandomSand
AddRandomSand(pile, ox, oy) ==
    /\ pc \in {"bassSand", "timerSand"}
    /\ sandToAdd > 0
    /\ grid' = addRandomSandOnce(grid, gridWidth, gridHeight, pile, ox, oy)
    /\ sandToAdd' = sandToAdd - 1
    /\ injected' = injected + 1
    /\ UNCHANGED <<pc, waveVars, audioVars, frames, audioAnalysis, deltaTime,
                   quake, threw, dimVars, outsideSand>>

\* the mid and timer part of updateAudioReactiveBehavior; count is
\* 2 + Math.floor(Math.random() * 2)
TimerPart(count) ==
    LET interval == IF audioAnalysis.mid > 40 THEN 20 ELSE 40
        timer == sandAdditionTimer + deltaTime
    IN  /\ sandAdditionInterval' = interval
        /\ IF timer >= interval
           THEN sandAdditionTimer' = 0 /\ sandToAdd' = count
           ELSE sandAdditionTimer' = timer /\ sandToAdd' = 0
        /\ pc' = "timerSand"

\* the treble test of updateAudioReactiveBehavior and the head of triggerEarthquake
TrebleTest(ex, ey, r2, count) ==
    /\ pc = "bassSand"
    /\ sandToAdd = 0
    /\ LET trebleIncrease == audioAnalysis.treble - lastTrebleLevel
       IN  IF trebleIncrease > 15 /\ audioAnalysis.treble > 70
           THEN /\ quake' = [ex |-> ex, ey |-> ey, r2 |-> r2,
                             x2 |-> Max(0, 2 * ex - r2), y2 |-> Max(0, 2 * ey - r2)]
                /\ pc' = "quake"
                /\ UNCHANGED <<audioVars, sandToAdd>>
           ELSE /\ lastTrebleLevel' = audioAnalysis.treble
                /\ TimerPart(count)
                /\ UNCHANGED <<quake, lastBassLevel>>
    /\ UNCHANGED <<grid, waveVars, frames, audioAnalysis, deltaTime, injected,
                   threw, dimVars, outsideSand>>

\* grainsToMove with a factor of 1.5 instead of 0.5
grainsToMoveTooMany(grains) == (grains * 3) \div 2

\* triggerEarthquake: Math.floor(cell.grains * 0.5)
grainsToMove(grains) == grains \div 2

\* one iteration of the inner loop of triggerEarthquake, at column x2 / 2 and
\* row y2 / 2; dx and dy are the offsets the two Math.random() calls give
QuakeStep(dx, dy, count) ==
    /\ pc = "quake"
    /\ LET q == quake
           xStart2 == Max(0, 2 * q.ex - q.r2)
           xEnd2 == Min(2 * gridWidth, 2 * q.ex + q.r2)
           yEnd2 == Min(2 * gridHeight, 2 * q.ey + q.r2)
           inside == (q.x2 - 2 * q.ex) * (q.x2 - 2 * q.ex)
                     + (q.y2 - 2 * q.ey) * (q.y2 - 2 * q.ey) <= q.r2 * q.r2
           \* this.grid[y][x] of a fractional y or x is undefined
           undefinedCell == q.y2 % 2 # 0 \/ q.x2 % 2 # 0
           x == q.x2 \div 2
           y == q.y2 \div 2
           moved == grainsToMove(grid[y][x])
           nearbyX == Max(0, Min(gridWidth - 1, x + dx))
           nearbyY == Max(0, Min(gridHeight - 1, y + dy))
           g1 == SetCell(grid, x, y, grid[y][x] - moved)
           g2 == SetCell(g1, nearbyX, nearbyY, addGrains(g1[nearbyY][nearbyX], moved))
       IN  IF inside /\ undefinedCell
           THEN \* TypeError: the exception leaves triggerEarthquake and draw()
                /\ threw' = TRUE
                /\ pc' = "idle"
                /\ quake' = NoQuake
                /\ audioAnalysis' = NullAnalysis
                /\ deltaTime' = 0
                /\ UNCHANGED <<grid, audioVars, sandToAdd>>
           ELSE /\ UNCHANGED <<threw, audioAnalysis, deltaTime>>
                /\ grid' = IF inside /\ grid[y][x] > 0 THEN g2 ELSE grid
                /\ IF q.x2 + 2 < xEnd2
                   THEN /\ quake' = [q EXCEPT !.x2 = q.x2 + 2]
                        /\ UNCHANGED <<pc, audioVars, sandToAdd>>
                   ELSE IF q.y2 + 2 < yEnd2
                   THEN /\ quake' = [q EXCEPT !.x2 = xStart2, !.y2 = q.y2 + 2]
                        /\ UNCHANGED <<pc, audioVars, sandToAdd>>
                   ELSE /\ quake' = NoQuake
                        /\ lastTrebleLevel' = audioAnalysis.treble
                        /\ TimerPart(count)
                        /\ UNCHANGED lastBassLevel
    /\ UNCHANGED <<waveVars, frames, injected, dimVars, outsideSand>>

\* updateAudioReactiveBehavior returns; draw() enters its toppling loop
EnterLoop ==
    /\ pc = "timerSand"
    /\ sandToAdd = 0
    /\ pc' = "topple"
    /\ stillToppling' = TRUE
    /\ safetyCounter' = 0
    /\ UNCHANGED <<grid, preGrid, waveLog, waveLost, audioVars, frames, audioAnalysis,
                   deltaTime, sandToAdd, injected, quake, threw, dimVars, outsideSand>>

\* one iteration of the while loop of draw(): one processToppling call
Wave ==
    /\ pc = "topple"
    /\ stillToppling /\ safetyCounter < MaxWavesPerFrame
    /\ LET r == processToppling(grid, gridWidth, gridHeight)
       IN  /\ grid' = r.grid
           /\ stillToppling' = r.result
           /\ waveLog' = r.log
           /\ waveLost' = r.lost
    /\ preGrid' = grid
    /\ safetyCounter' = safetyCounter + 1
    /\ UNCHANGED <<pc, audioVars, frames, audioAnalysis, deltaTime, sandToAdd,
                   injected, quake, threw, dimVars, outsideSand>>

\* the while loop of draw() exits
LoopExit ==
    /\ pc = "topple"
    /\ ~(stillToppling /\ safetyCounter < MaxWavesPerFrame)
    /\ pc' = "render"
    /\ UNCHANGED <<grid, waveVars, audioVars, frames, audioAnalysis, deltaTime,
                   sandToAdd, injected, quake, threw, dimVars, outsideSand>>

\* the rest of draw(): the cells and particles are drawn, the locals of the
\* frame go out of scope
Render ==
    /\ pc = "render"
    /\ pc' = "idle"
    /\ stillToppling' = FALSE
    /\ safetyCounter' = 0
    /\ preGrid' = grid
    /\ waveLog' = <<>>
    /\ waveLost' = 0
    /\ audioAnalysis' = NullAnalysis
    /\ deltaTime' = 0
    /\ UNCHANGED <<grid, audioVars, frames, sandToAdd, injected, quake, threw, dimVars, outsideSand>>

AudioInputs ==
    {NullAnalysis}
    \cup [present : {TRUE}, bass : BassLevels, mid : MidLevels, treble : TrebleLevels]

Epicenters(w, h) == {<<0, 0>>, <<w - 1, h - 1>>}

Init == InitSand /\ InitOutsideSand

Next ==
    \/ \E analysis \in AudioInputs, dt \in DeltaTimes : DrawBegin(analysis, dt)
    \/ \E pile \in PileDraws, ox \in SpreadDraws, oy \in SpreadDraws :
          AddRandomSand(pile, ox, oy)
    \/ \E e \in Epicenters(gridWidth, gridHeight), r2 \in QuakeRadii, count \in {2, 3} :
          TrebleTest(e[1], e[2], r2, count)
    \/ \E d \in NearbyDraws, count \in {2, 3} : QuakeStep(d[1], d[2], count)
    \/ EnterLoop
    \/ Wave
    \/ LoopExit
    \/ Render

Spec == Init /\ [][Next]_vars

Cells(w, h) == {<<x, y>> : x \in 0..(w - 1), y \in 0..(h - 1)}

\* C1: when the toppling loop of draw() exits because a wave toppled nothing,
\* every cell of the grid holds at most 3 grains.
StableAfterLoop ==
    (pc = "render" /\ ~stillToppling) =>
        \A c \in Cells(gridWidth, gridHeight) : grid[c[2]][c[1]] <= 3

\* the loop of a frame ran at least one wave that toppled and exited on a
\* wave that toppled nothing
StableAfterLoopWitness ==
    pc = "render" /\ ~stillToppling /\ safetyCounter >= 2 /\ grid # grid0

\* a wave has just run
AfterWave == pc = "topple" /\ safetyCounter > 0

OnEdge(x, y) == x = 0 \/ y = 0 \/ x = gridWidth - 1 \/ y = gridHeight - 1

\* C2: after every toppling wave the total of the grid equals the total before
\* the wave minus the grains sent to off-grid positions; a wave in which no
\* toppled cell lies on the edge of the grid leaves the total unchanged.
WaveConservesGrains ==
    AfterWave =>
        /\ TotalGrains(grid, gridWidth, gridHeight)
             = TotalGrains(preGrid, gridWidth, gridHeight) - waveLost
        /\ (\A i \in DOMAIN waveLog : ~OnEdge(waveLog[i].x, waveLog[i].y)) =>
              TotalGrains(grid, gridWidth, gridHeight)
                = TotalGrains(preGrid, gridWidth, gridHeight)

\* a wave toppled an edge cell and an interior cell and lost grains off the grid
WaveConservesGrainsWitness ==
    /\ AfterWave
    /\ waveLost > 0
    /\ \E i \in DOMAIN waveLog : ~OnEdge(waveLog[i].x, waveLog[i].y)
    /\ \E i \in DOMAIN waveLog : OnEdge(waveLog[i].x, waveLog[i].y)

\* C3: every topple removes exactly 4 grains from the toppling cell and gives
\* exactly 1 grain to each of its in-grid neighbours.
ToppleMovesFourGrains ==
    \A i \in DOMAIN waveLog :
        /\ waveLog[i].removed = 4
        /\ \A n \in DOMAIN waveLog[i].given : waveLog[i].given[n] = 1

\* scenario A: a 5x5 grid whose only grains are 8 grains in cell (2,2), no
\* audio player, the first frame has left its toppling loop on a stable grid
ScenarioA ==
    /\ gridWidth = 5 /\ gridHeight = 5
    /\ ~audioPlayer
    /\ grid0 = SetCell(EmptyGrid(5, 5), 2, 2, 8)
    /\ pc = "render" /\ ~stillToppling

\* C4 as stated: scenario A ends with cell (2,2) holding 0 grains and each of
\* its 4 orthogonal neighbours holding exactly 1 grain.
ScenarioAOneGrainEach ==
    ScenarioA =>
        /\ grid[2][2] = 0
        /\ grid[2][1] = 1 /\ grid[2][3] = 1 /\ grid[1][2] = 1 /\ grid[3][2] = 1

\* C4 amended: scenario A ends with cell (2,2) holding 0 grains and each of
\* its 4 orthogonal neighbours holding exactly 2 grains.
ScenarioATwoGrainsEach ==
    ScenarioA =>
        /\ grid[2][2] = 0
        /\ grid[2][1] = 2 /\ grid[2][3] = 2 /\ grid[1][2] = 2 /\ grid[3][2] = 2

\* scenario A has stabilized
ScenarioAWitness == ScenarioA /\ safetyCounter >= 2

\* C6: every cell's grain count is a non-negative integer in every reachable
\* state, under injection, toppling waves and earthquakes.
GrainsNonNegative ==
    \A c \in Cells(gridWidth, gridHeight) : grid[c[2]][c[1]] \in Nat

\* a wave toppled in a behaviour that injected grains and completed an
\* earthquake that moved grains
GrainsNonNegativeWitness ==
    /\ AfterWave /\ waveLog # <<>>
    /\ injected > 0
    /\ lastTrebleLevel > 0
    /\ \E c \in Cells(gridWidth, gridHeight) : grid[c[2]][c[1]] = 0 /\ grid0[c[2]][c[1]] > 0

\* the cell the earthquake loop stands at lies within the radius
QuakeInside ==
    (quake.x2 - 2 * quake.ex) * (quake.x2 - 2 * quake.ex)
      + (quake.y2 - 2 * quake.ey) * (quake.y2 - 2 * quake.ey) <= quake.r2 * quake.r2

\* C7: triggerEarthquake raises no exception: each grid cell it reads or
\* writes is addressed by integer indices inside the grid.
QuakeIndicesValid ==
    /\ ~threw
    /\ (pc = "quake" /\ QuakeInside) =>
          /\ quake.x2 % 2 = 0 /\ quake.y2 % 2 = 0
          /\ isValidGridPosition(quake.x2 \div 2, quake.y2 \div 2, gridWidth, gridHeight)

\* ------------------------------------------------------------------------
\* Toppling waves with a shuffled processing order and without the caps
\* ------------------------------------------------------------------------
\* the loop of draw() without its wave cap, as the code runs it
RECURSIVE stabilize(_, _, _)
stabilize(g, w, h) ==
    IF newTopples(g, w, h) = <<>> THEN g
    ELSE stabilize(processToppling(g, w, h).grid, w, h)

\* values of the cells of a 2x2 block of piles
BlockPiles == {3, 4, 6}

\* start grids that hold a 2x2 block of piles at the corner or inside the grid
BlockGrids(w, h) ==
    {[y \in 0..(h - 1) |-> [x \in 0..(w - 1) |->
        IF x \in {o, o + 1} /\ y \in {o, o + 1}
        THEN b[(x - o) + 2 * (y - o)] ELSE 0]] :
     o \in {0, 1}, b \in [0..3 -> BlockPiles]}

InitShuffled ==
    /\ audioPlayer = FALSE
    /\ gridWidth = GridW /\ gridHeight = GridH
    /\ grid \in StartGrids(GridW, GridH) \cup BlockGrids(GridW, GridH)
    /\ InitFrame
    /\ pending = {}
    /\ NoClouds
    /\ NoOthers

\* first loop of processToppling: the snapshot of the unstable cells
ShuffledScan ==
    /\ pc = "idle"
    /\ newTopples(grid, gridWidth, gridHeight) # <<>>
    /\ pending' = {newTopples(grid, gridWidth, gridHeight)[i] :
                      i \in DOMAIN newTopples(grid, gridWidth, gridHeight)}
    /\ pc' = "wave"
    /\ UNCHANGED <<grid, waveVars, audioVars, frames, audioAnalysis, deltaTime,
                   sandToAdd, injected, quake, threw, dimVars, cloudsVars,
                   otherVars>>

\* the forEach body of processToppling for a cell of the snapshot, taken in
\* any order
ShuffledTopple(pos) ==
    /\ pc = "wave"
    /\ pos \in pending
    /\ grid' = ToppleAt([grid |-> grid, topplesThisFrame |-> 0, lost |-> 0, log |-> <<>>],
                        pos, gridWidth, gridHeight).grid
    /\ pending' = pending \ {pos}
    /\ pc' = IF pending' = {} THEN "idle" ELSE "wave"
    /\ UNCHANGED <<waveVars, audioVars, frames, audioAnalysis, deltaTime,
                   sandToAdd, injected, quake, threw, dimVars, cloudsVars,
                   otherVars>>

\* a scan finds no unstable cell: the grid has stabilized
ShuffledStable ==
    /\ pc = "idle"
    /\ newTopples(grid, gridWidth, gridHeight) = <<>>
    /\ pc' = "stable"
    /\ UNCHANGED <<grid, waveVars, audioVars, frames, audioAnalysis, deltaTime,
                   sandToAdd, injected, quake, threw, dimVars, outsideSand>>

NextShuffled ==
    \/ ShuffledScan
    \/ \E pos \in Cells(gridWidth, gridHeight) : ShuffledTopple(pos)
    \/ ShuffledStable

SpecShuffled == InitShuffled /\ [][NextShuffled]_vars

\* C5: with the caps removed, the stabilized grid is the same for every order
\* in which the unstable cells of a wave are processed: it is the grid the
\* scan order of the code reaches from the same start grid.
ShuffledOrderSameResult ==
    pc = "stable" => grid = stabilize(grid0, gridWidth, gridHeight)

\* a run has stabilized from a block of four adjacent unstable cells
ShuffledOrderWitness ==
    /\ pc = "stable"
    /\ \A x \in {1, 2}, y \in {1, 2} : grid0[y][x] >= 4
    /\ grid # grid0

\* ------------------------------------------------------------------------
\* CloudsSimulation: grids and Life
\* ------------------------------------------------------------------------
\* CloudsSimulation.predationThreshold, in thousandths
predationThreshold == 20
\* CloudsSimulation.feedingThreshold, in thousandths
feedingThreshold == 50

\* CloudsSimulation.isValidPosition
isValidPosition(x, y, w, h) == x >= 0 /\ x < w /\ y >= 0 /\ y < h

\* the % operator of JavaScript: the result has the sign of the dividend
JsRem(a, b) == IF a >= 0 THEN a % b ELSE 0 - ((0 - a) % b)

\* ((n % size) + size) % size
Wrap(n, size) == JsRem(JsRem(n, size) + size, size)

\* Wrap without the inner remainder and the offset: -1 stays -1
WrapNot(n, size) == JsRem(n, size)

\* CloudsSimulation.initializeGrids: one grid filled with zeros
ZeroGrid(w, h) == [y \in 0..(h - 1) |-> [x \in 0..(w - 1) |-> 0]]

\* CloudsSimulation.setLife
setLife(life, x, y, value, w, h) ==
    IF isValidPosition(x, y, w, h) THEN [life EXCEPT ![y] = [@ EXCEPT ![x] = value]]
    ELSE life

\* CloudsSimulation.getLife, for integer coordinates
getLife(life, x, y, w, h) == IF isValidPosition(x, y, w, h) THEN life[y][x] ELSE 0

\* CloudsSimulation.getLenia, for integer coordinates
getLenia(lenia, x, y, w, h) == IF isValidPosition(x, y, w, h) THEN lenia[y][x] ELSE 0

\* CloudsSimulation.setLenia, for integer coordinates
setLenia(lenia, x, y, value, w, h) ==
    IF isValidPosition(x, y, w, h)
    THEN [lenia EXCEPT ![y] = [@ EXCEPT ![x] = Max(0, Min(1000, value))]]
    ELSE lenia

RECURSIVE SetLifeAll(_, _, _, _, _)
SetLifeAll(life, cells, value, w, h) ==
    IF cells = <<>> THEN life
    ELSE SetLifeAll(setLife(life, Head(cells)[1], Head(cells)[2], value, w, h),
                    Tail(cells), value, w, h)

\* the cells of addGlider with the second cell set above instead of below
gliderCellsMirrored(x, y) ==
    << <<x, y>>, <<x + 1, y - 1>>, <<x + 2, y - 1>>, <<x + 2, y>>, <<x + 2, y + 1>> >>

\* the five cells addGlider sets
gliderCells(x, y) ==
    << <<x, y>>, <<x + 1, y + 1>>, <<x + 2, y - 1>>, <<x + 2, y>>, <<x + 2, y + 1>> >>

\* CloudsSimulation.addGlider on the record of lifeGrid, gliders, staticPatterns
addGlider(cs, x, y, w, h) ==
    IF isValidPosition(x, y, w, h)
    THEN [cs EXCEPT !.lifeGrid = SetLifeAll(@, gliderCells(x, y), 1, w, h),
                    !.gliders = Append(@, [x |-> x + 1, y |-> y, vx |-> 1, vy |-> 1,
                                           age |-> 0])]
    ELSE cs

\* CloudsSimulation.addBlock; energy in thousandths
addBlock(cs, x, y, w, h) ==
    IF isValidPosition(x, y, w, h)
    THEN [cs EXCEPT !.lifeGrid = SetLifeAll(@, << <<x, y>>, <<x + 1, y>>, <<x, y + 1>>,
                                                  <<x + 1, y + 1>> >>, 1, w, h),
                    !.staticPatterns = Append(@, [type |-> "block", x |-> x, y |-> y,
                                                  width |-> 2, height |-> 2,
                                                  energy |-> 1000])]
    ELSE cs

\* the eight offsets of the neighbour loops, in loop order
NeighborOffsets ==
    << <<-1, -1>>, <<0, -1>>, <<1, -1>>, <<-1, 0>>, <<1, 0>>, <<-1, 1>>, <<0, 1>>, <<1, 1>> >>

\* countLifeNeighbors that also counts the cell itself
countLifeNeighborsWithCenter(life, x, y, w, h) ==
    SumSeq([i \in 1..8 |->
        LET wrappedX == Wrap(x + NeighborOffsets[i][1], w)
            wrappedY == Wrap(y + NeighborOffsets[i][2], h)
        IN  IF isValidPosition(wrappedX, wrappedY, w, h) /\ life[wrappedY][wrappedX] = 1
            THEN 1 ELSE 0]) + life[y][x]

\* CloudsSimulation.countLifeNeighbors
countLifeNeighbors(life, x, y, w, h) ==
    SumSeq([i \in 1..8 |->
        LET wrappedX == Wrap(x + NeighborOffsets[i][1], w)
            wrappedY == Wrap(y + NeighborOffsets[i][2], h)
        IN  IF isValidPosition(wrappedX, wrappedY, w, h) /\ life[wrappedY][wrappedX] = 1
            THEN 1 ELSE 0])

\* CloudsSimulation.isLocallyStable: the loop counts every one of its eight
\* iterations
isLocallyStable(x, y) ==
    LET stableNeighbors == Len(NeighborOffsets)
    IN  stableNeighbors >= 6

\* CloudsSimulation.isPartOfStaticPattern
isPartOfStaticPattern(patterns, x, y) ==
    \/ \E i \in DOMAIN patterns :
          /\ x >= patterns[i].x /\ x < patterns[i].x + patterns[i].width
          /\ y >= patterns[i].y /\ y < patterns[i].y + patterns[i].height
    \/ isLocallyStable(x, y)

\* the Conway rule of updateLifeGrid for one cell
lifeRule(life, x, y, w, h) ==
    LET neighbors == countLifeNeighbors(life, x, y, w, h)
        isAlive == life[y][x] = 1
    IN  IF isAlive
        THEN IF neighbors = 2 \/ neighbors = 3 THEN 1 ELSE 0
        ELSE IF neighbors = 3 THEN 1 ELSE 0

\* CloudsSimulation.updateLifeGrid; feedingDraws holds the cells for which
\* Math.random() < this.feedingRate * leniaIntensity came out true
updateLifeGrid(life, lenia, patterns, w, h, feedingDraws) ==
    [y \in 0..(h - 1) |-> [x \in 0..(w - 1) |->
        LET cell == lifeRule(life, x, y, w, h)
        IN  IF /\ cell = 1
               /\ getLenia(lenia, x, y, w, h) > predationThreshold
               /\ isPartOfStaticPattern(patterns, x, y)
               /\ <<x, y>> \in feedingDraws
            THEN 0 ELSE cell]]

\* the cells updateLifeGrid killed by feeding
fedCells(life, lenia, patterns, w, h, feedingDraws) ==
    {c \in feedingDraws :
        /\ isValidPosition(c[1], c[2], w, h)
        /\ lifeRule(life, c[1], c[2], w, h) = 1
        /\ getLenia(lenia, c[1], c[2], w, h) > predationThreshold
        /\ isPartOfStaticPattern(patterns, c[1], c[2])}

\* ------------------------------------------------------------------------
\* CloudsSimulation: Lenia
\* ------------------------------------------------------------------------
\* Math.exp(-k / 8) in thousandths, for k = 0, 1, 2, ...
ExpTable ==
    << 1000, 882, 779, 687, 607, 535, 472, 417, 368, 325, 287, 253, 223, 197, 174, 153,
       135, 119, 105, 93, 82, 72, 64, 56, 50, 44, 39, 34, 30, 27, 24, 21,
       18, 16, 14, 13, 11, 10, 9, 8, 7, 6, 5, 5, 4, 4, 3, 3,
       2, 2, 2, 2, 2, 1, 1, 1, 1, 1, 1, 1, 1 >>

\* Math.exp(-t) in thousandths, t given in eighths and rounded down to them
ExpNeg(t8) == IF t8 + 1 <= Len(ExpTable) THEN ExpTable[t8 + 1] ELSE 0

\* Math.min(1.0, old + value) replaced by the sum alone
leniaDepositUnclamped(old, value) == old + value

\* createLeniaOrganism: Math.min(1.0, this.leniaGrid[y][x] + value)
leniaDeposit(old, value) == Min(1000, old + value)

\* the offsets dx, dy of the loops of createLeniaOrganism, in half cells:
\* -radius, -radius + 1, ... up to radius
OrganismOffsets(r2) == {d2 \in (0 - r2)..r2 : (d2 + r2) % 2 = 0}

\* the cells of createLeniaOrganism that pass the distance and the position
\* test, as pairs of half-cell offsets
OrganismHits(centerX, centerY, r2, w, h) ==
    {d \in OrganismOffsets(r2) \X OrganismOffsets(r2) :
        /\ d[1] * d[1] + d[2] * d[2] <= r2 * r2
        /\ 2 * centerX + d[1] >= 0 /\ 2 * centerX + d[1] < 2 * w
        /\ 2 * centerY + d[2] >= 0 /\ 2 * centerY + d[2] < 2 * h}

\* CloudsSimulation.createLeniaOrganism, radius r2 in half cells and intensity
\* in thousandths: the new grid, and whether the call raised a TypeError
\* (this.leniaGrid[y] is undefined for a fractional y)
createLeniaOrganism(lenia, centerX, centerY, r2, intensity, w, h) ==
    LET hits == OrganismHits(centerX, centerY, r2, w, h)
    IN  IF r2 % 2 # 0
        THEN [leniaGrid |-> lenia, threw |-> hits # {}]
        ELSE [leniaGrid |->
                [y \in 0..(h - 1) |-> [x \in 0..(w - 1) |->
                    LET dx2 == 2 * (x - centerX)
                        dy2 == 2 * (y - centerY)
                    IN  IF <<dx2, dy2>> \in hits
                        THEN LET value == (intensity
                                    * ExpNeg((16 * (dx2 * dx2 + dy2 * dy2)) \div (r2 * r2)))
                                    \div 1000
                             IN  leniaDeposit(lenia[y][x], value)
                        ELSE lenia[y][x]]],
              threw |-> FALSE]

\* CloudsSimulation.leniaGrowthSigma, in thousandths
leniaGrowthSigma == 35
\* CloudsSimulation.maxKernelCacheSize
maxKernelCacheSize == 1000

\* the offsets of the kernel loops that pass the distance test, in loop order
KernelOffsets ==
    SelectSeq([i \in 1..((2 * leniaRadius + 1) * (2 * leniaRadius + 1)) |->
                  <<((i - 1) % (2 * leniaRadius + 1)) - leniaRadius,
                    ((i - 1) \div (2 * leniaRadius + 1)) - leniaRadius>>],
              LAMBDA o : o[1] * o[1] + o[2] * o[2] <= leniaRadius * leniaRadius)

\* CloudsSimulation.leniaKernelFunction of the distance whose square is d2:
\* exp(-(d / R)^2 / (2 * 0.3^2)), in thousandths
leniaKernelFunction(d2) ==
    IF d2 > leniaRadius * leniaRadius THEN 0
    ELSE ExpNeg((800 * d2) \div (18 * leniaRadius * leniaRadius))

\* CloudsSimulation.computeLeniaKernel: the weighted mean of the wrapped
\* neighbourhood, in thousandths
computeLeniaKernel(lenia, centerX, centerY, w, h) ==
    LET weight(i) == leniaKernelFunction(KernelOffsets[i][1] * KernelOffsets[i][1]
                                         + KernelOffsets[i][2] * KernelOffsets[i][2])
        cellValue(i) == lenia[Wrap(centerY + KernelOffsets[i][2], h)]
                             [Wrap(centerX + KernelOffsets[i][1], w)]
        totalDensity == SumSeq([i \in DOMAIN KernelOffsets |-> weight(i) * cellValue(i)])
        totalWeight == SumSeq([i \in DOMAIN KernelOffsets |-> weight(i)])
    IN  IF totalWeight > 0 THEN totalDensity \div totalWeight ELSE 0

\* 100 * Math.sin(0.5 * i) for i = 0 .. 20
SinTable ==
    << 0, 48, 84, 100, 91, 60, 14, -35, -76, -98, -96, -71, -28, 22, 66, 94, 99, 80,
       41, -8, -54 >>

\* flowComponent of leniaGrowthFunction: sin(density * 10) * 0.1 above 0.3,
\* the sine taken at the density rounded down to a multiple of 0.05
flowComponent(density) ==
    IF density > 300 THEN SinTable[Min(density \div 50, 20) + 1] ELSE 0

\* CloudsSimulation.leniaGrowthFunction, in thousandths; timeComponent is
\* Math.sin(Date.now() * 0.001) * 0.02
leniaGrowthFunction(density, mu, timeComponent) ==
    LET difference == density - mu
        baseGrowth == ((2500 * ExpNeg((4 * difference * difference)
                                      \div (leniaGrowthSigma * leniaGrowthSigma)))
                       \div 1000) - 1000
    IN  Max(-500, baseGrowth + timeComponent + flowComponent(density) + 20)

\* CloudsSimulation.isPartOfGlider
isPartOfGlider(gl, x, y) ==
    \E i \in DOMAIN gl :
        (x - gl[i].x) * (x - gl[i].x) + (y - gl[i].y) * (y - gl[i].y) <= 9

\* updateLeniaRegion: Math.max(0, Math.min(1, newValue))
clampLenia(value) == Max(0, Min(1000, value))

\* the new value updateLeniaRegion writes for one cell, given the density the
\* kernel cache returned; p holds the parameters of the simulation
leniaCellUpdate(density, currentValue, isLife, inGlider, inStatic, p, timeComponent) ==
    LET growthRate == leniaGrowthFunction(density, p.leniaGrowthMu, timeComponent)
        grown == currentValue + (p.leniaAlpha * growthRate) \div 1000
        predated == IF isLife /\ inGlider
                    THEN (grown * (1000000 - (p.predationRate * p.ecosystemPulse) \div 1000))
                         \div 1000000
                    ELSE grown
        fed == IF isLife /\ inStatic
               THEN predated + (p.feedingRate * currentValue) \div 1000000
               ELSE predated
    IN  clampLenia(fed)

\* the region of a cell
regionOf(x, y) == <<x \div regionSize, y \div regionSize>>

\* Math.ceil(size / this.regionSize)
regionCount(size) == (size + regionSize - 1) \div regionSize

\* the regions updateActiveRegions adds for one active cell, in the order of
\* its add calls
regionsAround(x, y, w, h) ==
    <<regionOf(x, y)>> \o
    SelectSeq([i \in 1..9 |-> <<regionOf(x, y)[1] + ((i - 1) % 3) - 1,
                                regionOf(x, y)[2] + ((i - 1) \div 3) - 1>>],
              LAMBDA r : r[1] >= 0 /\ r[1] < regionCount(w)
                         /\ r[2] >= 0 /\ r[2] < regionCount(h))

\* all regions of the grid
Regions(w, h) == (0..(regionCount(w) - 1)) \X (0..(regionCount(h) - 1))

\* the smallest element of a non-empty set of integers
Least(S) == CHOOSE m \in S : \A n \in S : m <= n

\* the cell x, y passes the test of updateActiveRegions and its region is r or
\* a neighbour of r
addsRegion(life, lenia, x, y, r) ==
    /\ life[y][x] = 1 \/ lenia[y][x] > 50
    /\ regionOf(x, y)[1] - r[1] \in -1..1
    /\ regionOf(x, y)[2] - r[2] \in -1..1

\* the moment of the scan of updateActiveRegions at which the region r is
\* added first: the first cell in scan order that adds it, and the place of r
\* among the add calls of that cell
firstAdded(life, lenia, r, w, h) ==
    LET y == Least({yy \in 0..(h - 1) :
                       \E xx \in 0..(w - 1) : addsRegion(life, lenia, xx, yy, r)})
        x == Least({xx \in 0..(w - 1) : addsRegion(life, lenia, xx, y, r)})
        adds == regionsAround(x, y, w, h)
    IN  (y * w + x) * 16 + (CHOOSE i \in DOMAIN adds :
                               adds[i] = r /\ \A j \in 1..(i - 1) : adds[j] # r)

\* updateActiveRegions that marks every region of the grid
updateActiveRegionsAll(life, lenia, w, h) ==
    [i \in 1..(regionCount(w) * regionCount(h)) |->
        <<(i - 1) % regionCount(w), (i - 1) \div regionCount(w)>>]

\* CloudsSimulation.updateActiveRegions: the regions of the set in insertion
\* order
updateActiveRegions(life, lenia, w, h) ==
    LET added == {r \in Regions(w, h) :
                     \E c \in (0..(w - 1)) \X (0..(h - 1)) :
                         addsRegion(life, lenia, c[1], c[2], r)}
        timed == {<<firstAdded(life, lenia, r, w, h), r>> : r \in added}
    IN  [i \in 1..Cardinality(timed) |->
            (CHOOSE p \in timed : Cardinality({q \in timed : q[1] < p[1]}) = i - 1)[2]]

\* the cells of one region in the order of the loops of updateLeniaRegion
regionCells(r, w, h) ==
    LET startX == r[1] * regionSize
        endX == Min((r[1] + 1) * regionSize, w)
        startY == r[2] * regionSize
        endY == Min((r[2] + 1) * regionSize, h)
        cols == endX - startX
    IN  [i \in 1..(cols * (endY - startY)) |->
            <<startX + ((i - 1) % cols), startY + ((i - 1) \div cols)>>]

\* the cells of the regions lo .. hi of a sequence of regions, in order
RECURSIVE ConcatCells(_, _, _, _, _)
ConcatCells(regs, lo, hi, w, h) ==
    IF lo > hi THEN <<>>
    ELSE IF lo = hi THEN regionCells(regs[lo], w, h)
    ELSE ConcatCells(regs, lo, (lo + hi) \div 2, w, h)
         \o ConcatCells(regs, (lo + hi) \div 2 + 1, hi, w, h)

\* the kernel cache after the keys of a sequence of cells were set, each with
\* the density computeLeniaKernel returns for it
cacheWith(cache, lenia, cells, w, h) ==
    LET new == {cells[i] : i \in DOMAIN cells}
    IN  [keys |-> cache.keys \o cells,
         value |-> [k \in DOMAIN cache.value \cup new |->
                       IF k \in new THEN computeLeniaKernel(lenia, k[1], k[2], w, h)
                       ELSE cache.value[k]]]

\* the kernel cache without its 100 oldest keys
cacheEvicted(cache) ==
    LET kept == SubSeq(cache.keys, 101, Len(cache.keys))
    IN  [keys |-> kept, value |-> [k \in {kept[i] : i \in DOMAIN kept} |-> cache.value[k]]]

\* CloudsSimulation.computeLeniaKernelCached in normal mode, for the cells of
\* the active regions in the order updateLeniaRegion asks for them: the cache
\* at the end and the density returned for each cell.  A cell not in the cache
\* is computed and set, after the 100 oldest keys were deleted when the cache
\* holds maxKernelCacheSize keys; the cells up to the next deletion are taken
\* together
RECURSIVE computeLeniaKernelCached(_, _, _, _, _, _)
computeLeniaKernelCached(cache, density, lenia, cells, w, h) ==
    LET misses == SelectSeq([i \in DOMAIN cells |-> i],
                            LAMBDA i : cells[i] \notin DOMAIN cache.value)
        room == Max(0, maxKernelCacheSize - Len(cache.keys))
        cut == IF Len(misses) <= room THEN Len(cells) + 1 ELSE misses[room + 1]
        taken == SubSeq(cells, 1, cut - 1)
        filled == cacheWith(cache, lenia,
                            SelectSeq(taken, LAMBDA c : c \notin DOMAIN cache.value), w, h)
        known == [c \in DOMAIN density \cup {taken[i] : i \in DOMAIN taken} |->
                     IF c \in DOMAIN density THEN density[c] ELSE filled.value[c]]
    IN  IF cut > Len(cells) THEN [cache |-> filled, density |-> known]
        ELSE computeLeniaKernelCached(cacheEvicted(filled), known, lenia,
                                      SubSeq(cells, cut, Len(cells)), w, h)

\* the loops of updateLeniaGridOptimized and updateLeniaRegion over the cells
\* of the active regions: the new grid and the kernel cache
updateLeniaCells(cache, cells, lenia, life, gl, patterns, p, timeComponent, w, h) ==
    LET k == computeLeniaKernelCached(cache, <<>>, lenia, cells, w, h)
    IN  [newGrid |-> [y \in 0..(h - 1) |-> [x \in 0..(w - 1) |->
                         IF <<x, y>> \in DOMAIN k.density
                         THEN leniaCellUpdate(k.density[<<x, y>>], lenia[y][x],
                                              getLife(life, x, y, w, h) = 1,
                                              isPartOfGlider(gl, x, y),
                                              isPartOfStaticPattern(patterns, x, y),
                                              p, timeComponent)
                         ELSE lenia[y][x]]],
         cache |-> k.cache]

\* CloudsSimulation.updateLeniaGridOptimized in normal mode
updateLeniaGridOptimized(lenia, cache, life, gl, patterns, p, timeComponent, w, h) ==
    LET regionsToUpdate == updateActiveRegions(life, lenia, w, h)
    IN  updateLeniaCells(cache,
                         ConcatCells(regionsToUpdate, 1, Len(regionsToUpdate), w, h),
                         lenia, life, gl, patterns, p, timeComponent, w, h)

\* ------------------------------------------------------------------------
\* CloudsSimulation: audio, interactions, maintenance
\* ------------------------------------------------------------------------
\* CloudsSimulation.maxGliders
maxGliders == 10
\* checkRadius of findSafeLocationsForLenia
checkRadius == 15
\* stand-in for CloudsSimulation.cleanupInterval (60 in the code)
cleanupInterval == 3

\* the fields of the CloudsSimulation as one record
cloudsState ==
    [lifeGrid |-> lifeGrid, leniaGrid |-> leniaGrid, gliders |-> gliders,
     staticPatterns |-> staticPatterns, lastBassLevel |-> cloudsLastBass,
     lastTrebleLevel |-> cloudsLastTreble, leniaAlpha |-> leniaAlpha,
     leniaGrowthMu |-> leniaGrowthMu, feedingRate |-> feedingRate,
     predationRate |-> predationRate, ecosystemPulse |-> ecosystemPulse,
     leniaKernelCache |-> leniaKernelCache, threw |-> FALSE, spawned |-> FALSE]

\* the sum of the values of a grid
GridSum(g, w, h) ==
    SumSeq([j \in 1..h |-> SumSeq([i \in 1..w |-> g[j - 1][i - 1]])])

\* CloudsSimulation.spawnAudioReactivePatterns; bassLevel in hundredths, spawn
\* is the outcome of Math.random() < bassLevel * 0.5
spawnAudioReactivePatterns(cs, bassLevel, spawn, x, y, w, h) ==
    LET cs1 == IF Len(cs.gliders) < maxGliders /\ spawn
               THEN [addGlider(cs, x, y, w, h) EXCEPT !.spawned = TRUE]
               ELSE cs
    IN  [cs1 EXCEPT !.leniaGrowthMu = 150 + bassLevel,
                    !.leniaAlpha = 250 + (bassLevel * 3) \div 2]

\* CloudsSimulation.createDisturbances; positions holds the drawn x, y of
\* each iteration
RECURSIVE createDisturbances(_, _, _, _, _, _)
createDisturbances(lenia, trebleLevel, positions, i, w, h) ==
    IF i > (trebleLevel * 3) \div 100 THEN lenia
    ELSE createDisturbances(
             createLeniaOrganism(lenia, positions[i][1], positions[i][2],
                                 2 * (3 + (trebleLevel * 5) \div 100),
                                 trebleLevel * 6, w, h).leniaGrid,
             trebleLevel, positions, i + 1, w, h)

\* CloudsSimulation.updateAudioReactivity; analysis holds the bands in
\* hundredths
updateAudioReactivity(cs, hasPlayer, analysis, spawn, x, y, positions, w, h) ==
    IF ~hasPlayer \/ ~analysis.present THEN cs
    ELSE LET cs1 == IF analysis.bass - cs.lastBassLevel > 10 /\ analysis.bass > 60
                    THEN spawnAudioReactivePatterns(cs, analysis.bass, spawn, x, y, w, h)
                    ELSE cs
             cs2 == IF analysis.treble - cs.lastTrebleLevel > 15 /\ analysis.treble > 70
                    THEN [cs1 EXCEPT !.leniaGrid =
                             createDisturbances(@, analysis.treble, positions, 1, w, h)]
                    ELSE cs1
         IN  [cs2 EXCEPT !.lastBassLevel = analysis.bass,
                         !.lastTrebleLevel = analysis.treble,
                         !.feedingRate = 8000 + 120 * analysis.mid,
                         !.predationRate = 15000 + 180 * analysis.mid,
                         !.ecosystemPulse = IF analysis.beatIntensity > 50
                                            THEN analysis.beatIntensity * 10
                                            ELSE (@ * 9) \div 10]

\* the cells of the bounding box of a pattern that are valid positions
patternCells(pattern, w, h) ==
    {c \in (pattern.x..(pattern.x + pattern.width - 1))
           \X (pattern.y..(pattern.y + pattern.height - 1)) :
        isValidPosition(c[1], c[2], w, h)}

\* the sum of the values of a grid over a set of cells
SumOver(g, cells, w, h) ==
    GridSum([y \in 0..(h - 1) |-> [x \in 0..(w - 1) |->
                IF <<x, y>> \in cells THEN g[y][x] ELSE 0]], w, h)

\* the sequence without its element i
RemoveAt(seq, i) == SubSeq(seq, 1, i - 1) \o SubSeq(seq, i + 1, Len(seq))

\* CloudsSimulation.processLeniaFeedingOnLife, from pattern i down to the first
RECURSIVE processLeniaFeedingOnLife(_, _, _, _)
processLeniaFeedingOnLife(cs, i, w, h) ==
    IF i < 1 THEN cs
    ELSE LET pattern == cs.staticPatterns[i]
             cells == patternCells(pattern, w, h)
             cellCount == Cardinality(cells)
             averageLeniaIntensity ==
                 IF cellCount > 0 THEN SumOver(cs.leniaGrid, cells, w, h) \div cellCount ELSE 0
             energy == pattern.energy - (cs.feedingRate * averageLeniaIntensity) \div 1000000
             cs1 == IF cellCount > 0 /\ averageLeniaIntensity > feedingThreshold
                    THEN IF energy <= 0
                         THEN [cs EXCEPT
                                 !.staticPatterns = RemoveAt(@, i),
                                 !.lifeGrid = [yy \in 0..(h - 1) |-> [xx \in 0..(w - 1) |->
                                     IF <<xx, yy>> \in cells THEN 0 ELSE @[yy][xx]]]]
                         ELSE [cs EXCEPT !.staticPatterns[i].energy = energy]
                    ELSE cs
         IN  processLeniaFeedingOnLife(cs1, i - 1, w, h)

\* CloudsSimulation.isGliderStillAlive
isGliderStillAlive(life, glider, w, h) ==
    Cardinality({d \in (-2..2) \X (-2..2) :
        getLife(life, glider.x + d[1], glider.y + d[2], w, h) = 1}) >= 3

\* the tracked glider after the position update of processGliderPredationOnLenia
gliderMoved(glider, w, h) ==
    IF (glider.age + 1) % 4 = 0
    THEN [glider EXCEPT !.age = @ + 1,
                        !.x = Wrap(@ + glider.vx, w),
                        !.y = Wrap(@ + glider.vy, h)]
    ELSE [glider EXCEPT !.age = @ + 1]

\* CloudsSimulation.processGliderPredationOnLenia, from glider i down to the first
RECURSIVE processGliderPredationOnLenia(_, _, _, _)
processGliderPredationOnLenia(cs, i, w, h) ==
    IF i < 1 THEN cs
    ELSE LET glider == gliderMoved(cs.gliders[i], w, h)
             lenia == [yy \in 0..(h - 1) |-> [xx \in 0..(w - 1) |->
                 LET leniaValue == cs.leniaGrid[yy][xx]
                 IN  IF /\ xx - glider.x \in -2..2 /\ yy - glider.y \in -2..2
                        /\ leniaValue > predationThreshold
                     THEN Max(0, Min(1000, (leniaValue * (1000000 - cs.predationRate))
                                           \div 1000000))
                     ELSE leniaValue]]
             kept == IF glider.age > 200 \/ ~isGliderStillAlive(cs.lifeGrid, glider, w, h)
                     THEN RemoveAt(cs.gliders, i)
                     ELSE [cs.gliders EXCEPT ![i] = glider]
         IN  processGliderPredationOnLenia(
                 [cs EXCEPT !.leniaGrid = lenia, !.gliders = kept], i - 1, w, h)

\* CloudsSimulation.updateEcosystemBalance; x, y are the draws of
\* spawnRandomGlider
updateEcosystemBalance(cs, x, y, w, h) ==
    LET totalLifeCells == GridSum(cs.lifeGrid, w, h)
        totalLeniaIntensity == GridSum(cs.leniaGrid, w, h)
        boosted == IF totalLifeCells * 1000 > totalLeniaIntensity * 50
                   THEN cs.leniaGrowthMu + 1 ELSE cs.leniaGrowthMu
        cs1 == IF totalLeniaIntensity > totalLifeCells * 2000
                  /\ Len(cs.gliders) < maxGliders
               THEN [addGlider(cs, x, y, w, h) EXCEPT !.spawned = TRUE]
               ELSE cs
    IN  [cs1 EXCEPT !.leniaGrowthMu = 150 + ((boosted - 150) * 99) \div 100]

\* CloudsSimulation.processInteractions
processInteractions(cs, x, y, w, h) ==
    updateEcosystemBalance(
        processGliderPredationOnLenia(
            processLeniaFeedingOnLife(cs, Len(cs.staticPatterns), w, h),
            Len(cs.gliders), w, h),
        x, y, w, h)

\* the life density test of findSafeLocationsForLenia at the drawn x, y:
\* averageLifeDensity < 0.1 over the valid cells within checkRadius
lowLifeDensity(life, x, y, w, h) ==
    LET cells == {c \in ((x - checkRadius)..(x + checkRadius))
                        \X ((y - checkRadius)..(y + checkRadius)) :
                     isValidPosition(c[1], c[2], w, h)}
    IN  Cardinality(cells) > 0
        /\ SumOver(life, cells, w, h) * 10 < Cardinality(cells)

\* CloudsSimulation.findSafeLocationsForLenia; attempts holds the x, y drawn
\* by the attempts that differ from the ones before them
RECURSIVE findSafeLocationsForLenia(_, _, _, _, _)
findSafeLocationsForLenia(safeLocations, life, attempts, w, h) ==
    IF attempts = <<>> \/ Len(safeLocations) >= 10 THEN safeLocations
    ELSE LET x == Head(attempts)[1]
             y == Head(attempts)[2]
             tooClose == \E i \in DOMAIN safeLocations :
                 (x - safeLocations[i][1]) * (x - safeLocations[i][1])
                 + (y - safeLocations[i][2]) * (y - safeLocations[i][2]) < 400
         IN  findSafeLocationsForLenia(
                 IF lowLifeDensity(life, x, y, w, h) /\ ~tooClose
                 THEN Append(safeLocations, <<x, y>>) ELSE safeLocations,
                 life, Tail(attempts), w, h)

\* the loop of reseedLeniaOrganisms over the safe locations; u holds the value
\* of Math.random() of each iteration, in hundredths
RECURSIVE reseedAt(_, _, _, _, _, _)
reseedAt(cs, safeLocations, u, i, w, h) ==
    IF i > Min(3, Len(safeLocations)) \/ cs.threw THEN cs
    ELSE LET made == createLeniaOrganism(cs.leniaGrid, safeLocations[i][1],
                                         safeLocations[i][2], 12 + (6 * u[i]) \div 100,
                                         600 + 3 * u[i], w, h)
         IN  reseedAt([cs EXCEPT !.leniaGrid = made.leniaGrid, !.threw = made.threw],
                      safeLocations, u, i + 1, w, h)

\* CloudsSimulation.reseedLeniaOrganisms
reseedLeniaOrganisms(cs, attempts, u, w, h) ==
    LET centerX == w \div 2
        centerY == h \div 2
        safeLocations == findSafeLocationsForLenia(<<>>, cs.lifeGrid, attempts, w, h)
    IN  IF Len(safeLocations) > 0
        THEN reseedAt(cs, safeLocations, u, 1, w, h)
        ELSE [cs EXCEPT !.leniaGrid =
                 createLeniaOrganism(
                     createLeniaOrganism(@, centerX - 20, centerY - 15, 14, 800, w, h).leniaGrid,
                     centerX + 15, centerY + 20, 12, 700, w, h).leniaGrid]

\* CloudsSimulation.addSmallLeniaOrganism; the first safe location is the one
\* drawn
addSmallLeniaOrganism(cs, attempts, u, w, h) ==
    LET safeLocations == findSafeLocationsForLenia(<<>>, cs.lifeGrid, attempts, w, h)
    IN  IF Len(safeLocations) > 0
        THEN LET made == createLeniaOrganism(cs.leniaGrid, safeLocations[1][1],
                                             safeLocations[1][2], 8 + (4 * u[1]) \div 100,
                                             500 + 2 * u[1], w, h)
             IN  [cs EXCEPT !.leniaGrid = made.leniaGrid, !.threw = made.threw]
        ELSE cs

\* CloudsSimulation.maintainLeniaPopulation
maintainLeniaPopulation(cs, attempts, u, w, h) ==
    LET present == [yy \in 0..(h - 1) |-> [xx \in 0..(w - 1) |->
                       IF cs.leniaGrid[yy][xx] > 10 THEN cs.leniaGrid[yy][xx] ELSE 0]]
        counted == [yy \in 0..(h - 1) |-> [xx \in 0..(w - 1) |->
                       IF cs.leniaGrid[yy][xx] > 10 THEN 1 ELSE 0]]
        totalLeniaPopulation == GridSum(present, w, h)
        activeCells == GridSum(counted, w, h)
    IN  IF totalLeniaPopulation < 10 * w * h \/ activeCells < 20
        THEN reseedLeniaOrganisms(cs, attempts, u, w, h)
        ELSE IF totalLeniaPopulation < 30 * w * h \/ activeCells < 50
             THEN addSmallLeniaOrganism(cs, attempts, u, w, h)
             ELSE cs

\* CloudsSimulation.performMaintenance
performMaintenance(cs, attempts, u, w, h) ==
    LET cs1 == [cs EXCEPT
                  !.gliders = SelectSeq(@, LAMBDA g :
                                  g.age < 300 /\ isGliderStillAlive(cs.lifeGrid, g, w, h)),
                  !.staticPatterns = SelectSeq(@, LAMBDA pattern : pattern.energy > 0)]
        cs2 == maintainLeniaPopulation(cs1, attempts, u, w, h)
    IN  IF cs2.threw THEN cs2
        ELSE IF 2 * Len(cs2.leniaKernelCache.keys) > maxKernelCacheSize
             THEN [cs2 EXCEPT !.leniaKernelCache = [keys |-> <<>>, value |-> <<>>]]
             ELSE cs2

\* CloudsSimulation.verifyStaticPattern
verifyStaticPattern(life, pattern, w, h) ==
    \A c \in patternCells(pattern, w, h) : getLife(life, c[1], c[2], w, h) # 0

\* CloudsSimulation.updateStaticPatternTracking
updateStaticPatternTracking(cs, w, h) ==
    [cs EXCEPT !.staticPatterns =
        [i \in DOMAIN @ |-> IF verifyStaticPattern(cs.lifeGrid, @[i], w, h)
                            THEN @[i] ELSE [@[i] EXCEPT !.energy = 0]]]

\* ------------------------------------------------------------------------
\* CloudsSimulation: construction and draw()
\* ------------------------------------------------------------------------
RECURSIVE seedGliders(_, _, _, _)
seedGliders(cs, at, w, h) ==
    IF at = <<>> THEN cs
    ELSE seedGliders(addGlider(cs, Head(at)[1], Head(at)[2], w, h), Tail(at), w, h)

RECURSIVE seedBlocks(_, _, _, _)
seedBlocks(cs, at, w, h) ==
    IF at = <<>> THEN cs
    ELSE seedBlocks(addBlock(cs, Head(at)[1], Head(at)[2], w, h), Tail(at), w, h)

\* CloudsSimulation.seedLeniaOrganisms: each organism is x, y, the radius in
\* half cells and the intensity in thousandths
RECURSIVE seedLeniaOrganisms(_, _, _, _)
seedLeniaOrganisms(lenia, organisms, w, h) ==
    IF organisms = <<>> THEN lenia
    ELSE seedLeniaOrganisms(
             createLeniaOrganism(lenia, Head(organisms)[1], Head(organisms)[2],
                                 Head(organisms)[3], Head(organisms)[4], w, h).leniaGrid,
             Tail(organisms), w, h)

\* the seedings of the constructor the runs start from: the glider of
\* seedLifePatterns alone, with a block under two overlapping organisms, and
\* a glider at the far corner next to an organism
CloudsSeeds(w, h) ==
    { [gliders |-> << <<10, 10>> >>, blocks |-> <<>>, organisms |-> <<>>,
       audio |-> FALSE, phases |-> {20}],
      [gliders |-> << <<10, 10>> >>, blocks |-> <<>>, organisms |-> <<>>,
       audio |-> TRUE, phases |-> {20}],
      [gliders |-> << <<10, 10>> >>, blocks |-> << <<4, 4>> >>,
       organisms |-> << <<5, 5, 6, 900>>, <<6, 5, 6, 850>> >>, audio |-> FALSE,
       phases |-> {-20, 20}],
      [gliders |-> << <<w - 3, h - 3>> >>, blocks |-> << <<w - 1, h - 1>> >>,
       organisms |-> << <<w - 3, h - 4, 8, 800>> >>, audio |-> FALSE,
       phases |-> {-20}] }

\* no SandpileSimulation has been constructed
NoSandpile ==
    /\ gridWidth = 0 /\ gridHeight = 0
    /\ grid = <<>>
    /\ audioPlayer = FALSE
    /\ InitFrame
    /\ pending = {}

\* CloudsSimulation.seedInitialPatterns after initializeGrids: the grids are
\* new, the lists gliders and staticPatterns are the ones of cs with the
\* seeded patterns pushed onto them
seedInitialPatterns(cs, seed, w, h) ==
    LET seeded == seedBlocks(
                      seedGliders([cs EXCEPT !.lifeGrid = ZeroGrid(w, h)],
                                  seed.gliders, w, h),
                      seed.blocks, w, h)
    IN  [seeded EXCEPT !.leniaGrid =
            seedLeniaOrganisms(ZeroGrid(w, h), seed.organisms, w, h)]

\* the lists of a CloudsSimulation before its constructor seeds it
NewClouds == [lifeGrid |-> <<>>, leniaGrid |-> <<>>, gliders |-> <<>>,
              staticPatterns |-> <<>>]

\* the state the constructor of CloudsSimulation leaves
InitClouds ==
    \E seed \in CloudsSeeds(CloudsW, CloudsH) :
        LET cs == seedInitialPatterns(NewClouds, seed, CloudsW, CloudsH)
        IN  /\ cloudsWidth = CloudsW /\ cloudsHeight = CloudsH
            /\ lifeGrid = cs.lifeGrid /\ lifeGrid0 = cs.lifeGrid
            /\ prevLifeGrid = cs.lifeGrid
            /\ beforeLenia = [grid |-> cs.leniaGrid, cached |-> {}]
            /\ gliders = cs.gliders /\ staticPatterns = cs.staticPatterns
            /\ leniaGrid = cs.leniaGrid
            /\ cloudsAudio = seed.audio
            /\ undisturbed = (cs.leniaGrid = ZeroGrid(CloudsW, CloudsH))
            /\ leniaOps = IF cs.leniaGrid = ZeroGrid(CloudsW, CloudsH) THEN {}
                          ELSE {"organism"}
            /\ cpc = "idle" /\ generation = 0 /\ lastKills = {}
            /\ cloudsLastBass = 0 /\ cloudsLastTreble = 0
            /\ leniaAlpha = 250 /\ leniaGrowthMu = 150
            /\ feedingRate = 8000 /\ predationRate = 15000
            /\ ecosystemPulse = 0
            /\ leniaKernelCache = [keys |-> <<>>, value |-> <<>>]
            /\ framesSinceCleanup = 0
            /\ cloudsThrew = FALSE
            /\ playing = 0
            /\ zeroFrames = 0
            /\ cloudsSeed = [gliders |-> seed.gliders, blocks |-> seed.blocks,
                             organisms |-> seed.organisms]
            /\ resizes = 0
            /\ timePhase \in seed.phases
            /\ NoSandpile
            /\ NoOthers

\* the fields a step of draw() assigns from the record it computed; op names
\* the operation that wrote the Lenia grid
SetClouds(cs, op) ==
    /\ lifeGrid' = cs.lifeGrid /\ leniaGrid' = cs.leniaGrid
    /\ gliders' = cs.gliders /\ staticPatterns' = cs.staticPatterns
    /\ cloudsLastBass' = cs.lastBassLevel /\ cloudsLastTreble' = cs.lastTrebleLevel
    /\ leniaAlpha' = cs.leniaAlpha /\ leniaGrowthMu' = cs.leniaGrowthMu
    /\ feedingRate' = cs.feedingRate /\ predationRate' = cs.predationRate
    /\ ecosystemPulse' = cs.ecosystemPulse
    /\ leniaKernelCache' = cs.leniaKernelCache
    /\ undisturbed' = (undisturbed /\ ~cs.spawned
                       /\ cs.leniaGrid = ZeroGrid(cloudsWidth, cloudsHeight))
    /\ leniaOps' = IF cs.leniaGrid # leniaGrid THEN leniaOps \cup {op} ELSE leniaOps
    /\ UNCHANGED <<cloudsWidth, cloudsHeight, lifeGrid0, cloudsAudio, timePhase,
                   cloudsSeed, sandVars, pending, otherVars>>

\* what getAudioAnalysis returns to the CloudsSimulation: null, a silent
\* frame, a loud frame with a beat
CloudsAnalyses ==
    { [present |-> FALSE, bass |-> 0, mid |-> 0, treble |-> 0, beatIntensity |-> 0],
      [present |-> TRUE, bass |-> 0, mid |-> 0, treble |-> 0, beatIntensity |-> 0],
      [present |-> TRUE, bass |-> 70, mid |-> 50, treble |-> 80, beatIntensity |-> 60] }

\* the x, y createDisturbances draws for its iterations
DisturbanceDraws == { << <<12, 9>>, <<11, 9>>, <<0, 0>> >> }

\* the x, y spawnRandomGlider and spawnAudioReactivePatterns draw
SpawnDraws(w, h) == { <<5, h - 6>> }

\* draw() up to the end of updateAudioReactivity, in normal mode
CloudsDrawBegin(analysis, spawn, at, positions) ==
    /\ cpc = "idle"
    /\ generation < MaxGenerations
    /\ analysis.present => cloudsAudio /\ playing < MaxPlaying
    /\ SetClouds(updateAudioReactivity(cloudsState, cloudsAudio, analysis, spawn,
                                       at[1], at[2], positions, cloudsWidth, cloudsHeight),
                 "disturbance")
    /\ playing' = IF analysis.present THEN playing + 1 ELSE playing
    /\ cloudsThrew' = FALSE
    /\ cpc' = "life"
    /\ UNCHANGED <<generation, prevLifeGrid, beforeLenia, lastKills, framesSinceCleanup, zeroFrames,
                   resizes>>

\* the sets of cells for which the feeding draw of updateLifeGrid can come out
\* true: none, all that pass its tests, the first of them in scan order
FeedingDraws ==
    LET all == fedCells(lifeGrid, leniaGrid, staticPatterns, cloudsWidth, cloudsHeight,
                        (0..(cloudsWidth - 1)) \X (0..(cloudsHeight - 1)))
        first == {c \in all : \A d \in all :
                     c[2] * cloudsWidth + c[1] <= d[2] * cloudsWidth + d[1]}
    IN  {{}, all, first}

\* draw(): this.updateLifeGrid()
CloudsLife(feedingDraws) ==
    /\ cpc = "life"
    /\ SetClouds([cloudsState EXCEPT !.lifeGrid =
                     updateLifeGrid(lifeGrid, leniaGrid, staticPatterns, cloudsWidth,
                                    cloudsHeight, feedingDraws)], "life")
    /\ prevLifeGrid' = lifeGrid
    /\ lastKills' = fedCells(lifeGrid, leniaGrid, staticPatterns, cloudsWidth,
                             cloudsHeight, feedingDraws)
    /\ generation' = generation + 1
    /\ cpc' = "lenia"
    /\ UNCHANGED <<beforeLenia, framesSinceCleanup, cloudsThrew, playing, zeroFrames, resizes>>

\* draw(): this.updateLeniaGridOptimized(), leniaUpdateInterval being 1
CloudsLenia ==
    /\ cpc = "lenia"
    /\ LET updated == updateLeniaGridOptimized(leniaGrid, leniaKernelCache, lifeGrid,
                                               gliders, staticPatterns, cloudsState,
                                               timePhase, cloudsWidth, cloudsHeight)
       IN  SetClouds([cloudsState EXCEPT !.leniaGrid = updated.newGrid,
                                         !.leniaKernelCache = updated.cache], "region")
    /\ beforeLenia' = [grid |-> leniaGrid, cached |-> DOMAIN leniaKernelCache.value]
    /\ cpc' = "interact"
    /\ UNCHANGED <<generation, prevLifeGrid, lastKills, framesSinceCleanup, cloudsThrew,
                   playing, zeroFrames, resizes>>

\* draw(): this.processInteractions()
CloudsInteract(at) ==
    /\ cpc = "interact"
    /\ SetClouds(processInteractions(cloudsState, at[1], at[2], cloudsWidth, cloudsHeight),
                 "predation")
    /\ cpc' = "track"
    /\ UNCHANGED <<generation, prevLifeGrid, beforeLenia, lastKills, framesSinceCleanup, cloudsThrew,
                   playing, zeroFrames, resizes>>

\* the x, y the attempts of findSafeLocationsForLenia draw
AttemptDraws == { << <<15, 15>>, <<8, 8>> >> }

\* the values of Math.random() the reseeding draws, in hundredths
RadiusDraws == { <<0, 0, 0>>, <<25, 25, 25>> }

\* draw() from updatePatternTracking to render(): a TypeError raised by the
\* maintenance ends the frame before framesSinceCleanup is reset
CloudsTrack(attempts, u) ==
    /\ cpc = "track"
    /\ LET tracked == updateStaticPatternTracking(cloudsState, cloudsWidth, cloudsHeight)
           due == framesSinceCleanup + 1 >= cleanupInterval
           cs == IF due
                 THEN performMaintenance(tracked, attempts, u, cloudsWidth, cloudsHeight)
                 ELSE tracked
       IN  /\ SetClouds(cs, "reseed")
           /\ framesSinceCleanup' = IF due /\ ~cs.threw THEN 0 ELSE framesSinceCleanup + 1
           /\ cloudsThrew' = cs.threw
           /\ zeroFrames' = IF cs.leniaGrid = ZeroGrid(cloudsWidth, cloudsHeight)
                            THEN zeroFrames + 1 ELSE 0
    /\ cpc' = "idle"
    /\ UNCHANGED <<generation, prevLifeGrid, beforeLenia, lastKills, playing, resizes>>

\* CloudsSimulation.onResize between two frames, to a size on the same side
\* of the thresholds: initializeGrids and seedInitialPatterns, nothing else.
\* The window is resized before or after the last frame of a behaviour.
CloudsResize ==
    /\ cpc = "idle"
    /\ resizes < MaxResizes
    /\ generation + 1 >= MaxGenerations
    /\ SetClouds([seedInitialPatterns(cloudsState, cloudsSeed, cloudsWidth, cloudsHeight)
                     EXCEPT !.spawned = TRUE], "organism")
    /\ resizes' = resizes + 1
    /\ UNCHANGED <<cpc, generation, prevLifeGrid, beforeLenia, lastKills, framesSinceCleanup,
                   cloudsThrew, playing, zeroFrames>>

NextClouds ==
    \/ \E analysis \in CloudsAnalyses, spawn \in BOOLEAN,
          at \in SpawnDraws(cloudsWidth, cloudsHeight), positions \in DisturbanceDraws :
          CloudsDrawBegin(analysis, spawn, at, positions)
    \/ \E feedingDraws \in FeedingDraws : CloudsLife(feedingDraws)
    \/ CloudsLenia
    \/ \E at \in SpawnDraws(cloudsWidth, cloudsHeight) : CloudsInteract(at)
    \/ \E attempts \in AttemptDraws, u \in RadiusDraws : CloudsTrack(attempts, u)
    \/ CloudsResize

SpecClouds == InitClouds /\ [][NextClouds]_vars

\* ------------------------------------------------------------------------
\* Properties of CloudsSimulation
\* ------------------------------------------------------------------------
\* the live cells of a Life grid
LiveCells(life, w, h) == {c \in (0..(w - 1)) \X (0..(h - 1)) : life[c[2]][c[1]] = 1}

\* the live cells at distance one from c on the torus
LiveAround(live, c, w, h) ==
    {d \in live : /\ d # c
                  /\ (d[1] - c[1]) % w \in {0, 1, w - 1}
                  /\ (d[2] - c[2]) % h \in {0, 1, h - 1}}

\* the generation that follows a grid under the rule of Conway on the torus,
\* every cell taken from the grid before the update
ConwayGeneration(life, w, h) ==
    [y \in 0..(h - 1) |-> [x \in 0..(w - 1) |->
        LET n == Cardinality(LiveAround(LiveCells(life, w, h), <<x, y>>, w, h))
        IN  IF n = 3 \/ (n = 2 /\ life[y][x] = 1) THEN 1 ELSE 0]]

\* C8: when the feeding draw kills no cell, the grid one updateLifeGrid call
\* leaves is the synchronous Conway generation of the grid before the call on
\* the torus (survive on 2 or 3, birth on exactly 3, otherwise dead)
LifeIsConwayGeneration ==
    (cpc = "lenia" /\ lastKills = {})
        => lifeGrid = ConwayGeneration(prevLifeGrid, cloudsWidth, cloudsHeight)

\* a generation without a feeding kill that changed the grid, with Lenia on
\* the grid and live cells on both sides of the seam of the torus
LifeIsConwayGenerationWitness ==
    /\ cpc = "lenia" /\ lastKills = {}
    /\ lifeGrid # prevLifeGrid
    /\ leniaGrid # ZeroGrid(cloudsWidth, cloudsHeight)
    /\ \E y \in 0..(cloudsHeight - 1) : prevLifeGrid[y][cloudsWidth - 1] = 1
    /\ \E y \in 0..(cloudsHeight - 1) : lifeGrid[y][0] = 1

\* twice the centre of the bounding box of a non-empty set of cells
BoxCentre2(cells) ==
    LET xs == {c[1] : c \in cells}
        ys == {c[2] : c \in cells}
    IN  <<Least(xs) + (0 - Least({0 - x : x \in xs})),
          Least(ys) + (0 - Least({0 - y : y \in ys}))>>

\* scenario B: the run started from addGlider(10, 10) on an empty grid and no
\* Lenia value was positive, no glider spawned since
ScenarioB ==
    /\ cloudsWidth > 0
    /\ lifeGrid0 = addGlider([lifeGrid |-> ZeroGrid(cloudsWidth, cloudsHeight),
                              gliders |-> <<>>, staticPatterns |-> <<>>],
                             10, 10, cloudsWidth, cloudsHeight).lifeGrid
    /\ undisturbed

\* C9: four generations after addGlider(10, 10) on an empty grid, without
\* Lenia, the live cells are the five seeded cells moved by (+1, +1), so the
\* centre of their bounding box has moved by (1, 1)
GliderMovesOneOne ==
    (ScenarioB /\ generation = 4)
        => /\ LiveCells(lifeGrid, cloudsWidth, cloudsHeight)
                = {<<c[1] + 1, c[2] + 1>> : c \in LiveCells(lifeGrid0, cloudsWidth, cloudsHeight)}
           /\ BoxCentre2(LiveCells(lifeGrid, cloudsWidth, cloudsHeight))
                = <<BoxCentre2(LiveCells(lifeGrid0, cloudsWidth, cloudsHeight))[1] + 2,
                    BoxCentre2(LiveCells(lifeGrid0, cloudsWidth, cloudsHeight))[2] + 2>>

\* scenario B after its fourth generation, five cells alive
GliderMovesOneOneWitness ==
    /\ ScenarioB /\ generation = 4
    /\ Cardinality(LiveCells(lifeGrid0, cloudsWidth, cloudsHeight)) = 5
    /\ Cardinality(LiveCells(lifeGrid, cloudsWidth, cloudsHeight)) = 5

\* C10: every value of the Lenia grid lies in [0, 1] after every step that
\* writes the grid
LeniaInUnitInterval ==
    \A y \in 0..(cloudsHeight - 1) : \A x \in 0..(cloudsWidth - 1) :
        leniaGrid[y][x] >= 0 /\ leniaGrid[y][x] <= 1000

\* organisms, the region update and the predation have changed the grid, and
\* it holds a cell at 1 and a cell strictly between 0 and 1
LeniaInUnitIntervalWitness ==
    /\ {"organism", "region", "predation"} \subseteq leniaOps
    /\ \E y \in 0..(cloudsHeight - 1) : \E x \in 0..(cloudsWidth - 1) :
           leniaGrid[y][x] = 1000
    /\ \E y \in 0..(cloudsHeight - 1) : \E x \in 0..(cloudsWidth - 1) :
           leniaGrid[y][x] > 0 /\ leniaGrid[y][x] < 1000

\* C11: the Lenia mass is never zero at the end of more frames in a row than
\* one maintenance interval holds: the maintenance pass that falls into such
\* a run reseeds organisms and makes the mass positive
LeniaMassReturns == zeroFrames <= cleanupInterval

\* C12: no call of CloudsSimulation.draw() ends in an exception: every frame
\* reaches render(), the frames in which the maintenance reseeds included
DrawReachesRender == ~cloudsThrew

\* C13: a frame of the CloudsSimulation in which no audio analysis is available
\* runs with the neutral modulation, whatever earlier frames heard: the feeding
\* and predation rates are the base rates, the ecosystem pulse is zero, and
\* updateAudioReactivity spawns no glider and disturbs no Lenia cell
MissingAudioIsNeutral ==
    [][(cpc = "idle" /\ cpc' = "life" /\ playing' = playing)
          => /\ feedingRate' = 8000 /\ predationRate' = 15000
             /\ ecosystemPulse' = 0
             /\ gliders' = gliders /\ lifeGrid' = lifeGrid /\ leniaGrid' = leniaGrid]_vars

\* C14: onResize leaves the CloudsSimulation as its constructor would for the
\* new size: the grids are new and seeded, the tracked gliders and static
\* patterns are those of the seeding alone, and the kernel cache is empty
ResizeIsFreshEngine ==
    [][resizes' = resizes + 1
          => LET fresh == seedInitialPatterns(NewClouds, cloudsSeed, cloudsWidth',
                                              cloudsHeight')
             IN  /\ lifeGrid' = fresh.lifeGrid /\ leniaGrid' = fresh.leniaGrid
                 /\ gliders' = fresh.gliders
                 /\ staticPatterns' = fresh.staticPatterns
                 /\ leniaKernelCache' = [keys |-> <<>>, value |-> <<>>]]_vars

\* ------------------------------------------------------------------------
\* BaseSimulation and CellularAutomataSimulation: the animation loop
\* ------------------------------------------------------------------------
\* handles requestAnimationFrame hands out in one behaviour of the loop
MaxRaf == 12

\* the keys of VisualizationManager.audioFiles
VisualizationTypes == {"hillside", "roofs", "road", "clouds"}

\* a simulation object after its constructor: rafId 0 stands for null,
\* scheduled holds the handles of the animation-frame callbacks the browser
\* has still to run, draws counts the calls of draw()
newSimulation(type) ==
    [type |-> type, rafId |-> 0, scheduled |-> {}, draws |-> 0, destroyed |-> FALSE]

\* BaseSimulation.animate; id is the handle requestAnimationFrame returns
animate(sim, id) ==
    [sim EXCEPT !.rafId = id, !.scheduled = @ \cup {id}, !.draws = @ + 1]

\* start without the test of rafId
startAlways(sim, id) == animate(sim, id)

\* BaseSimulation.start
start(sim, id) == IF sim.rafId = 0 THEN animate(sim, id) ELSE sim

\* BaseSimulation.stop and CellularAutomataSimulation.stop
stop(sim) ==
    IF sim.rafId # 0
    THEN [sim EXCEPT !.scheduled = @ \ {sim.rafId}, !.rafId = 0]
    ELSE sim

\* BaseSimulation.destroy
destroy(sim) == [stop(sim) EXCEPT !.destroyed = TRUE]

\* CellularAutomataSimulation.animate, which is also its start()
animateCellular(sim, id) ==
    [sim EXCEPT !.rafId = id, !.scheduled = (@ \ {sim.rafId}) \cup {id},
                !.draws = @ + 1]

\* the browser runs the callback with handle id: () => this.animate()
runFrame(sim, id, next) ==
    LET fired == [sim EXCEPT !.scheduled = @ \ {id}]
    IN  IF sim.type = "hillside" THEN animateCellular(fired, next)
        ELSE animate(fired, next)

\* one BaseSimulation, no manager around it
InitLoop ==
    /\ sims = << newSimulation("base") >>
    /\ nextRaf = 1 /\ lastCall = "constructor"
    /\ currentVisualization = 0 /\ currentType = "none"
    /\ procs = <<>>
    /\ buttonsDisabled = FALSE /\ activeButton = "none"
    /\ media = NewMedia
    /\ NoBoids /\ NoForEach /\ NoBeat /\ NoClouds /\ NoSandpile

\* what a call on the simulation leaves alone
LoopRest == <<currentVisualization, currentType, procs, buttonsDisabled, activeButton,
              media, boidVars, forEach, beat, cloudsVars, sandVars, pending>>

\* simulation.start(); the draw() that animate() calls after it has scheduled
\* the next frame returns or throws
LoopStart(drawThrows) ==
    /\ nextRaf <= MaxRaf
    /\ sims' = << start(sims[1], nextRaf) >>
    /\ nextRaf' = IF sims[1].rafId = 0 THEN nextRaf + 1 ELSE nextRaf
    /\ lastCall' = IF sims[1].rafId # 0 THEN "start while running"
                   ELSE IF drawThrows THEN "start threw" ELSE "start"
    /\ UNCHANGED LoopRest

\* simulation.stop()
LoopStop ==
    /\ sims' = << stop(sims[1]) >>
    /\ lastCall' = "stop"
    /\ UNCHANGED <<nextRaf, LoopRest>>

\* simulation.destroy()
LoopDestroy ==
    /\ sims' = << destroy(sims[1]) >>
    /\ lastCall' = "destroy"
    /\ UNCHANGED <<nextRaf, LoopRest>>

\* the browser runs a scheduled animation-frame callback
LoopFrame(id, drawThrows) ==
    /\ nextRaf <= MaxRaf
    /\ id \in sims[1].scheduled
    /\ sims' = << runFrame(sims[1], id, nextRaf) >>
    /\ nextRaf' = nextRaf + 1
    /\ lastCall' = IF drawThrows THEN "frame threw" ELSE "frame"
    /\ UNCHANGED LoopRest

NextLoop ==
    \/ \E drawThrows \in BOOLEAN : LoopStart(drawThrows)
    \/ LoopStop
    \/ LoopDestroy
    \/ \E id \in 1..MaxRaf, drawThrows \in BOOLEAN : LoopFrame(id, drawThrows)

SpecLoop == InitLoop /\ [][NextLoop]_vars

\* ------------------------------------------------------------------------
\* VisualizationManager and MenuManager
\* ------------------------------------------------------------------------
\* calls of MenuManager.handleMenuClick in one behaviour
MaxClicks == 2
\* handles requestAnimationFrame hands out to frame callbacks in one behaviour
MaxAppRaf == 3

\* the classes createSimulation instantiates that inherit destroy() from
\* BaseSimulation; CellularAutomataSimulation (hillside) defines none
hasDestroy(type) == type # "hillside"

\* simulation.start() of the class createSimulation picks for the type
startSimulation(sim, id) ==
    IF sim.type = "hillside" THEN animateCellular(sim, id) ELSE start(sim, id)

\* VisualizationManager.switchVisualization up to its first await; m holds
\* sims, currentVisualization and currentType. The call of destroy() on an
\* object without that method raises a TypeError, which rejects the promise
\* before anything was changed.
switchVisualization(m, type) ==
    LET cur == m.currentVisualization
    IN  IF cur # 0 /\ ~hasDestroy(m.sims[cur].type)
        THEN [m EXCEPT !.threw = TRUE]
        ELSE [sims |-> IF cur # 0 THEN [m.sims EXCEPT ![cur] = destroy(@)] ELSE m.sims,
              currentVisualization |-> 0,
              currentType |-> type,
              threw |-> FALSE]

\* VisualizationManager.createSimulation for a known type
createSimulation(m, type, id) ==
    [m EXCEPT !.sims = Append(@, startSimulation(newSimulation(type), id)),
              !.currentVisualization = Len(m.sims) + 1]

\* the fields of the VisualizationManager as one record
manager ==
    [sims |-> sims, currentVisualization |-> currentVisualization,
     currentType |-> currentType, threw |-> FALSE]

\* a call that has not been made yet
NoCall == [pc |-> "unused", type |-> "none", menu |-> FALSE, prev |-> 0]

\* the state after new VisualizationManager(), new MenuManager(...) and
\* syncWithVisualization(): initialize() has called switchVisualization
\* ('hillside'), which waits for audioPlayer.initialize()
InitApp ==
    /\ sims = <<>> /\ nextRaf = 1 /\ lastCall = "none"
    /\ currentVisualization = 0 /\ currentType = "hillside"
    /\ procs = << [pc |-> "init", type |-> "hillside", menu |-> FALSE, prev |-> 0] >>
                 \o [i \in 1..MaxClicks |-> NoCall]
    /\ buttonsDisabled = FALSE /\ activeButton = "hillside"
    /\ media = NewMedia
    /\ NoBoids /\ NoForEach /\ NoBeat /\ NoClouds /\ NoSandpile

AppRest == <<lastCall, boidVars, forEach, beat, cloudsVars, sandVars, pending>>

\* AudioPlayer.play
play(m) == IF m.audio THEN [m EXCEPT !.isPlaying = TRUE] ELSE m

\* AudioPlayer.pause; stop() also rewinds
pause(m) == IF m.audio THEN [m EXCEPT !.isPlaying = FALSE] ELSE m

\* VisualizationManager.startAudio
startAudio(m) ==
    IF ~m.clickToStartShown THEN m
    ELSE play([m EXCEPT !.clickToStartShown = FALSE])

\* await this.audioPlayer.initialize() resumes; loadAudio is called and sets
\* this.audio = new Audio(audioUrl)
SwitchInitialized(p) ==
    /\ procs[p].pc = "init"
    /\ procs' = [procs EXCEPT ![p].pc = "load"]
    /\ media' = [media EXCEPT !.audio = TRUE]
    /\ UNCHANGED <<sims, nextRaf, currentVisualization, currentType, buttonsDisabled,
                   activeButton, AppRest>>

\* loadAudio settles (loaded: audioLoaded and showClickToStart; a failure is
\* caught inside switchVisualization) and createSimulation runs; the promise
\* of switchVisualization resolves
SwitchLoaded(p, loaded) ==
    /\ procs[p].pc = "load"
    /\ media' = IF loaded
                THEN [media EXCEPT !.audioLoaded = TRUE, !.clickToStartShown = TRUE]
                ELSE media
    /\ LET m == createSimulation(manager, procs[p].type, nextRaf)
       IN  /\ sims' = m.sims
           /\ currentVisualization' = m.currentVisualization
    /\ nextRaf' = nextRaf + 1
    /\ procs' = [procs EXCEPT ![p].pc = "resolved"]
    /\ UNCHANGED <<currentType, buttonsDisabled, activeButton, AppRest>>

\* MenuManager.handleMenuClick up to its await, for a click on the button of
\* the type; switchVisualization stops the audio and resets the loading
\* state, and the click then reaches the listener of the document
handleMenuClick(p, type) ==
    /\ p > 1 /\ procs[p].pc = "unused" /\ procs[p - 1].pc # "unused"
    /\ IF type = activeButton
       THEN /\ procs' = [procs EXCEPT ![p] = [pc |-> "returned", type |-> type,
                                              menu |-> TRUE, prev |-> 0]]
            /\ media' = startAudio(media)
            /\ UNCHANGED <<sims, currentVisualization, currentType, buttonsDisabled>>
       ELSE LET m == switchVisualization(manager, type)
            IN  /\ buttonsDisabled' = TRUE
                /\ media' = IF m.threw THEN media
                            ELSE [pause(media) EXCEPT !.audioLoaded = FALSE,
                                                      !.clickToStartShown = FALSE]
                /\ sims' = m.sims
                /\ currentVisualization' = m.currentVisualization
                /\ currentType' = m.currentType
                /\ procs' = [procs EXCEPT ![p] =
                                [pc |-> IF m.threw THEN "rejected" ELSE "init",
                                 type |-> type, menu |-> TRUE,
                                 prev |-> currentVisualization]]
    /\ UNCHANGED <<nextRaf, activeButton, AppRest>>

\* handleMenuClick resumes after its await: updateActiveButton when the
\* switch succeeded, and setButtonsEnabled(true) in the finally block
MenuSettle(p) ==
    /\ procs[p].menu /\ procs[p].pc \in {"resolved", "rejected"}
    /\ activeButton' = IF procs[p].pc = "resolved" THEN procs[p].type ELSE activeButton
    /\ buttonsDisabled' = FALSE
    /\ procs' = [procs EXCEPT ![p].pc = "settled"]
    /\ UNCHANGED <<sims, nextRaf, currentVisualization, currentType, media, AppRest>>

\* the browser runs a scheduled animation-frame callback of a simulation
AppFrame(i, id) ==
    /\ nextRaf <= MaxAppRaf
    /\ i \in DOMAIN sims /\ id \in sims[i].scheduled
    /\ sims' = [sims EXCEPT ![i] = runFrame(@, id, nextRaf)]
    /\ nextRaf' = nextRaf + 1
    /\ UNCHANGED <<currentVisualization, currentType, procs, buttonsDisabled,
                   activeButton, media, AppRest>>

\* VisualizationManager.toggleAudio, m holding sims and media: pause and
\* stop the visualization, or play and start it
toggleAudio(m, cur, id) ==
    IF m.media.isPlaying
    THEN [media |-> pause(m.media),
          sims |-> IF cur # 0 THEN [m.sims EXCEPT ![cur] = stop(@)] ELSE m.sims]
    ELSE [media |-> play(m.media),
          sims |-> IF cur # 0 THEN [m.sims EXCEPT ![cur] = startSimulation(@, id)]
                   ELSE m.sims]

\* a keydown of the space bar: handleKeyPress, then the listener that starts
\* the audio from the prompt
KeySpace ==
    /\ nextRaf <= MaxAppRaf
    /\ LET m == IF media.clickToStartShown
                THEN [media |-> startAudio(media), sims |-> sims]
                ELSE toggleAudio([media |-> media, sims |-> sims],
                                 currentVisualization, nextRaf)
       IN  /\ media' = m.media
           /\ sims' = m.sims
           /\ nextRaf' = IF m.sims # sims /\ ~media.isPlaying THEN nextRaf + 1 ELSE nextRaf
    /\ UNCHANGED <<currentVisualization, currentType, procs, buttonsDisabled,
                   activeButton, AppRest>>

\* a keydown of S: handleKeyPress calls audioPlayer.stop() once the prompt is gone
KeyS ==
    /\ ~media.clickToStartShown
    /\ media' = pause(media)
    /\ UNCHANGED <<sims, nextRaf, currentVisualization, currentType, procs,
                   buttonsDisabled, activeButton, AppRest>>

\* a click outside the menu: the listener of the document calls startAudio
\* while the prompt is shown
DocumentClick ==
    /\ media.clickToStartShown
    /\ media' = startAudio(media)
    /\ UNCHANGED <<sims, nextRaf, currentVisualization, currentType, procs,
                   buttonsDisabled, activeButton, AppRest>>

NextApp ==
    \/ \E p \in 1..(MaxClicks + 1) : SwitchInitialized(p)
    \/ \E p \in 1..(MaxClicks + 1), loaded \in BOOLEAN : SwitchLoaded(p, loaded)
    \/ KeySpace
    \/ KeyS
    \/ DocumentClick
    \/ \E p \in 1..(MaxClicks + 1), type \in VisualizationTypes : handleMenuClick(p, type)
    \/ \E p \in 1..(MaxClicks + 1) : MenuSettle(p)
    \/ \E i \in 1..(MaxClicks + 1), id \in 1..(MaxAppRaf + MaxClicks + 1) :
          AppFrame(i, id)

SpecApp == InitApp /\ [][NextApp]_vars

\* C15: every call of switchVisualization(t) for a known type t that is made
\* while some visualization runs, of whatever type, ends fulfilled, with the
\* visualization that ran at the call destroyed and without a frame to come,
\* currentType = t, and currentVisualization a started simulation of type t
SwitchDestroysAndStarts ==
    [][\A p \in DOMAIN procs :
          (/\ procs[p].pc \notin {"resolved", "rejected"}
           /\ procs'[p].pc \in {"resolved", "rejected"}
           /\ procs'[p].prev # 0)
          => /\ procs'[p].pc = "resolved"
             /\ sims'[procs'[p].prev].scheduled = {}
             /\ currentType' = procs'[p].type
             /\ currentVisualization' # 0
             /\ sims'[currentVisualization'].type = procs'[p].type
             /\ sims'[currentVisualization'].rafId # 0]_vars

\* C16: the menu buttons are disabled exactly while some call of
\* handleMenuClick has started a switch and has not settled yet, also when
\* two calls are in flight together
ButtonsDisabledWhileSwitching ==
    buttonsDisabled
        <=> \E p \in DOMAIN procs :
                procs[p].menu /\ procs[p].pc \in {"init", "load", "resolved", "rejected"}

\* C17: whatever start(), stop(), destroy() and frame callbacks a
\* BaseSimulation has seen, at most one animation-frame callback is scheduled
\* for it, the scheduled one is the one rafId names, and after stop() or
\* destroy() rafId is null and no callback is left that would call draw()
OneAnimationLoop ==
    /\ Cardinality(sims[1].scheduled) <= 1
    /\ sims[1].rafId # 0 => sims[1].scheduled = {sims[1].rafId}
    /\ sims[1].rafId = 0 => sims[1].scheduled = {}
    /\ lastCall \in {"stop", "destroy"} => sims[1].rafId = 0

\* start() was called on a running simulation that had been destroyed and
\* started again before, and has drawn several frames
OneAnimationLoopWitness ==
    /\ lastCall = "start while running"
    /\ sims[1].destroyed
    /\ sims[1].draws >= 3
    /\ sims[1].rafId # 0

\* ------------------------------------------------------------------------
\* Boid: health, death and respawn
\* ------------------------------------------------------------------------
\* boids of one behaviour
NumBoids == 1

\* Boid.maxHealth
maxHealth == 100
\* Boid.respawnDelay, in ms
respawnDelay == 3000

\* the damage BoidsSimulation passes to takeDamage: 20 + bass * 30 from
\* createElectricArc and 40 + bass * 50 from createLongDistanceArc, for bass
\* 0, 0.5 and 1, and the 150 of a hit beyond maxHealth
DamageAmounts == {20, 35, 50, 40, 65, 90, 150}

\* deltaTime * 1000 of Boid.update, in ms
BoidDeltaTimes == {1000, 2000}

\* the health fields of a Boid after its constructor
newBoid == [health |-> maxHealth, isDead |-> FALSE, respawnTimer |-> 0]

\* Boid.die
die(b) == [b EXCEPT !.isDead = TRUE, !.respawnTimer = respawnDelay]

\* takeDamage without Math.max(0, this.health)
takeDamageUnclamped(b, amount) ==
    IF b.isDead THEN b
    ELSE IF b.health - amount <= 0 THEN die([b EXCEPT !.health = b.health - amount])
         ELSE [b EXCEPT !.health = b.health - amount]

\* Boid.takeDamage
takeDamage(b, amount) ==
    IF b.isDead THEN b
    ELSE LET health == Max(0, b.health - amount)
         IN  IF health <= 0 THEN die([b EXCEPT !.health = health])
             ELSE [b EXCEPT !.health = health]

\* Boid.respawn
respawn(b) == [b EXCEPT !.isDead = FALSE, !.health = maxHealth]

\* Boid.handleRespawn, deltaTime * 1000 given in ms
handleRespawn(b, ms) ==
    LET counted == [b EXCEPT !.respawnTimer = @ - ms]
    IN  IF counted.respawnTimer <= 0 THEN respawn(counted) ELSE counted

\* Boid.update, as far as the health fields go
update(b, ms) == IF b.isDead THEN handleRespawn(b, ms) ELSE b

InitBoids ==
    /\ boids = [i \in 1..NumBoids |-> newBoid]
    /\ boidCall = [op |-> "constructor", boid |-> 1, before |-> newBoid]
    /\ NoApp /\ NoClouds /\ NoSandpile /\ NoForEach /\ NoBeat

BoidRest == <<appVars, cloudsVars, sandVars, pending, forEach, beat>>

\* boid.takeDamage(amount, ...)
BoidTakeDamage(i, amount) ==
    /\ boids' = [boids EXCEPT ![i] = takeDamage(@, amount)]
    /\ boidCall' = [op |-> "takeDamage", boid |-> i, before |-> boids[i]]
    /\ UNCHANGED BoidRest

\* boid.update(deltaTime, ...)
BoidUpdate(i, ms) ==
    /\ boids' = [boids EXCEPT ![i] = update(@, ms)]
    /\ boidCall' = [op |-> "update", boid |-> i, before |-> boids[i]]
    /\ UNCHANGED BoidRest

\* boid.respawn()
BoidRespawn(i) ==
    /\ boids' = [boids EXCEPT ![i] = respawn(@)]
    /\ boidCall' = [op |-> "respawn", boid |-> i, before |-> boids[i]]
    /\ UNCHANGED BoidRest

NextBoids ==
    \/ \E i \in 1..NumBoids, amount \in DamageAmounts : BoidTakeDamage(i, amount)
    \/ \E i \in 1..NumBoids, ms \in BoidDeltaTimes : BoidUpdate(i, ms)
    \/ \E i \in 1..NumBoids : BoidRespawn(i)

SpecBoids == InitBoids /\ [][NextBoids]_vars

\* C18: a boid is dead exactly when its health is 0, its health lies in
\* [0, maxHealth], and takeDamage on a dead boid changes nothing
DeadIffNoHealth ==
    /\ \A i \in DOMAIN boids :
          /\ boids[i].isDead <=> boids[i].health = 0
          /\ boids[i].health >= 0 /\ boids[i].health <= maxHealth
    /\ (boidCall.op = "takeDamage" /\ boidCall.before.isDead)
          => boids[boidCall.boid] = boidCall.before

\* takeDamage has hit a dead boid whose respawn countdown was running
DeadIffNoHealthWitness ==
    /\ boidCall.op = "takeDamage"
    /\ boidCall.before.isDead
    /\ boidCall.before.respawnTimer < respawnDelay
    /\ boids[boidCall.boid].health = 0

\* ------------------------------------------------------------------------
\* Toppling waves of one frame
\* ------------------------------------------------------------------------
\* the grid one wave leaves when every cell topples on the grain count it had
\* in g and receives what its neighbours give on the counts they had in g
SynchronousWave(g, w, h) ==
    [y \in 0..(h - 1) |-> [x \in 0..(w - 1) |->
        LET nbrs == getNeighborPositions(x, y)
            received == [i \in 1..4 |->
                IF isValidGridPosition(nbrs[i][1], nbrs[i][2], w, h)
                THEN topple(g[nbrs[i][2]][nbrs[i][1]]).perNeighbor
                ELSE 0]
        IN  topple(g[y][x]).grains + SumSeq(received)]]

\* C19: the grid after a toppling wave equals the synchronous update computed
\* from the grain counts at the start of the wave, and only cells that were
\* unstable at the start of the wave topple in it.
WaveIsSynchronous ==
    AfterWave =>
        /\ grid = SynchronousWave(preGrid, gridWidth, gridHeight)
        /\ \A i \in DOMAIN waveLog : isUnstable(preGrid[waveLog[i].y][waveLog[i].x])


\* grid of the runs that start with grains in every cell (no audio player)
CapGridW == 9
CapGridH == 6

\* start grids that hold the same pile of MaxPile - 1 or MaxPile grains in
\* every cell
FullGrids(w, h) ==
    {[y \in 0..(h - 1) |-> [x \in 0..(w - 1) |-> fill]] :
     fill \in {MaxPile - 1, MaxPile}}

InitCaps ==
    /\ audioPlayer = FALSE
    /\ gridWidth = CapGridW /\ gridHeight = CapGridH
    /\ grid \in FullGrids(CapGridW, CapGridH)
    /\ InitFrame
    /\ InitOutsideSand

CapRest == <<audioVars, frames, audioAnalysis, deltaTime, sandToAdd, injected,
             quake, threw, dimVars, pending, cloudsVars, appVars, boidVars, beat>>

\* processToppling is called from the loop of draw() and collects the
\* unstable cells
CapScan ==
    /\ pc = "topple"
    /\ stillToppling /\ safetyCounter < MaxWavesPerFrame
    /\ forEach' = [todo |-> newTopples(grid, gridWidth, gridHeight),
                   topplesThisFrame |-> 0,
                   toppledInFrame |-> IF safetyCounter = 0 THEN 0
                                      ELSE forEach.toppledInFrame]
    /\ preGrid' = grid
    /\ waveLog' = <<>>
    /\ waveLost' = 0
    /\ pc' = "forEach"
    /\ UNCHANGED <<grid, stillToppling, safetyCounter, CapRest>>

\* one call of the forEach callback of processToppling
CapTopple ==
    /\ pc = "forEach"
    /\ forEach.todo # <<>>
    /\ LET st == ToppleAt([grid |-> grid,
                           topplesThisFrame |-> forEach.topplesThisFrame,
                           lost |-> waveLost, log |-> waveLog],
                          Head(forEach.todo), gridWidth, gridHeight)
       IN  /\ grid' = st.grid
           /\ waveLost' = st.lost
           /\ waveLog' = st.log
           /\ forEach' = [todo |-> Tail(forEach.todo),
                          topplesThisFrame |-> st.topplesThisFrame,
                          toppledInFrame |-> forEach.toppledInFrame
                              + (st.topplesThisFrame - forEach.topplesThisFrame)]
    /\ UNCHANGED <<pc, stillToppling, safetyCounter, preGrid, CapRest>>

\* processToppling returns to the loop of draw()
CapReturn ==
    /\ pc = "forEach"
    /\ forEach.todo = <<>>
    /\ stillToppling' = (forEach.topplesThisFrame > 0)
    /\ safetyCounter' = safetyCounter + 1
    /\ pc' = "topple"
    /\ UNCHANGED <<grid, preGrid, waveLog, waveLost, forEach, CapRest>>

\* draw() of a simulation without audio player, processToppling topple by
\* topple
NextCaps ==
    \/ DrawBegin(NullAnalysis, 16)
    \/ CapScan
    \/ CapTopple
    \/ CapReturn
    \/ LoopExit
    \/ Render

\* draw() runs to its end once it is called: each loop takes its next
\* iteration or exits
SpecCaps ==
    InitCaps /\ [][NextCaps]_vars
    /\ WF_vars(CapScan \/ CapTopple \/ CapReturn \/ LoopExit)

\* C20: one draw() call runs at most 10 toppling waves, each wave topples at
\* most 50 cells, and the toppling loop of the frame ends, be the grid stable
\* or not.
FrameLoopIsCapped ==
    /\ [](/\ safetyCounter <= MaxWavesPerFrame
          /\ forEach.topplesThisFrame <= maxTopplesPerFrame
          /\ Len(waveLog) <= maxTopplesPerFrame)
    /\ (pc = "topple") ~> (pc = "render")

\* the loop of the first frame, whose first wave found more than 50 unstable
\* cells, has ended after its tenth wave on a grid that is still unstable
FrameLoopIsCappedWitness ==
    /\ pc = "render" /\ stillToppling
    /\ safetyCounter = MaxWavesPerFrame
    /\ frames = 1
    /\ Len(newTopples(grid0, gridWidth, gridHeight)) > maxTopplesPerFrame
    /\ \E c \in Cells(gridWidth, gridHeight) : isUnstable(grid[c[2]][c[1]])

\* C21: the waves of one draw() call topple at most 50 cells in total.
FrameTopplesCapped == forEach.toppledInFrame <= maxTopplesPerFrame

\* the cell lies inside the bounding box of a tracked static pattern
InStaticPatternBox(x, y) ==
    \E i \in DOMAIN staticPatterns :
        /\ x >= staticPatterns[i].x /\ x < staticPatterns[i].x + staticPatterns[i].width
        /\ y >= staticPatterns[i].y /\ y < staticPatterns[i].y + staticPatterns[i].height

\* C22: a cell that updateLifeGrid kills by feeding lies inside the bounding box
\* of a tracked static pattern and holds a Lenia density above the feeding
\* threshold; live cells outside every such box are never killed by feeding.
FeedingOnlyOnStaticPatterns ==
    cpc = "lenia" =>
        \A c \in lastKills :
            /\ InStaticPatternBox(c[1], c[2])
            /\ getLenia(leniaGrid, c[1], c[2], cloudsWidth, cloudsHeight) > feedingThreshold

\* the tile of the cell x, y, or a tile next to it, held a live Life cell or
\* a Lenia density above 0.05 when the last Lenia update began
InActiveTile(x, y) ==
    \E c \in Cells(cloudsWidth, cloudsHeight) :
        /\ lifeGrid[c[2]][c[1]] = 1 \/ beforeLenia.grid[c[2]][c[1]] > 50
        /\ (c[1] \div regionSize) - (x \div regionSize) \in -1..1
        /\ (c[2] \div regionSize) - (y \div regionSize) \in -1..1

\* C23: a Lenia update recomputes only cells of active tiles: after it every
\* cell outside the active tiles holds the Lenia value it held before, and no
\* kernel density was computed for it.
LeniaOutsideActiveTilesKept ==
    cpc = "interact" =>
        \A c \in Cells(cloudsWidth, cloudsHeight) :
            ~InActiveTile(c[1], c[2]) =>
                /\ leniaGrid[c[2]][c[1]] = beforeLenia.grid[c[2]][c[1]]
                /\ c \in DOMAIN leniaKernelCache.value => c \in beforeLenia.cached

\* a Lenia update has changed a cell of an active tile, has computed kernel
\* densities, and has left alone the cells of a tile that is not active
LeniaOutsideActiveTilesKeptWitness ==
    /\ cpc = "interact"
    /\ leniaGrid # beforeLenia.grid
    /\ DOMAIN leniaKernelCache.value # beforeLenia.cached
    /\ \E c \in Cells(cloudsWidth, cloudsHeight) : ~InActiveTile(c[1], c[2])

\* C24: the density a Lenia update uses for a cell, which is the value the
\* kernel cache holds for the cell after the update, equals the kernel
\* convolution of the Lenia grid before the update at that cell.
CachedDensityIsCurrent ==
    cpc = "interact" =>
        \A c \in Cells(cloudsWidth, cloudsHeight) :
            InActiveTile(c[1], c[2]) =>
                /\ c \in DOMAIN leniaKernelCache.value
                /\ leniaKernelCache.value[c]
                     = computeLeniaKernel(beforeLenia.grid, c[1], c[2],
                                          cloudsWidth, cloudsHeight)

\* the step takes the tracked static pattern i off the list
LeavesList(i) ==
    \A j \in DOMAIN staticPatterns' :
        <<staticPatterns'[j].x, staticPatterns'[j].y>>
            # <<staticPatterns[i].x, staticPatterns[i].y>>

\* C25: when a static pattern leaves the tracked list, no Life cell inside
\* its bounding box is alive.
RemovedPatternIsCleared ==
    [][\A i \in DOMAIN staticPatterns :
          LeavesList(i) =>
              \A c \in patternCells(staticPatterns[i], cloudsWidth, cloudsHeight) :
                  lifeGrid'[c[2]][c[1]] = 0]_vars

\* ------------------------------------------------------------------------
\* CloudsSimulation under a window that is resized again and again
\* ------------------------------------------------------------------------
\* the resize events of a behaviour, and the frames drawn between them
MaxWindowResizes == 10
MaxResizeFrames == 1

\* CloudsSimulation.onResize at any time between two frames
CloudsResizeAgain ==
    /\ cpc = "idle"
    /\ resizes < MaxWindowResizes
    /\ SetClouds([seedInitialPatterns(cloudsState, cloudsSeed, cloudsWidth, cloudsHeight)
                     EXCEPT !.spawned = TRUE], "organism")
    /\ resizes' = resizes + 1
    /\ UNCHANGED <<cpc, generation, prevLifeGrid, beforeLenia, lastKills, framesSinceCleanup,
                   cloudsThrew, playing, zeroFrames>>

NextResize ==
    \/ \E analysis \in CloudsAnalyses, spawn \in BOOLEAN,
          at \in SpawnDraws(cloudsWidth, cloudsHeight), positions \in DisturbanceDraws :
          /\ generation < MaxResizeFrames
          /\ CloudsDrawBegin(analysis, spawn, at, positions)
    \/ \E feedingDraws \in FeedingDraws : CloudsLife(feedingDraws)
    \/ CloudsLenia
    \/ \E at \in SpawnDraws(cloudsWidth, cloudsHeight) : CloudsInteract(at)
    \/ \E attempts \in AttemptDraws, u \in RadiusDraws : CloudsTrack(attempts, u)
    \/ CloudsResizeAgain

SpecResize == InitClouds /\ [][NextResize]_vars

\* C26: the list of tracked gliders never holds more than maxGliders entries,
\* whatever the construction, the spawning and the resizes did.
GlidersWithinMax == Len(gliders) <= maxGliders

\* ------------------------------------------------------------------------
\* Properties of concurrent switches
\* ------------------------------------------------------------------------
\* the simulations that have been started and still have a frame to come
RunningSimulations == {i \in DOMAIN sims : sims[i].scheduled # {}}

\* C27: at most one simulation runs at any time, also when a second
\* switchVisualization starts while an earlier one still waits for the audio.
AtMostOneRunning == Cardinality(RunningSimulations) <= 1

\* a switchVisualization call waits for the audio
Loading == \E p \in DOMAIN procs : procs[p].pc \in {"init", "load"}

\* C28: while a switch loads its audio and while the click-to-start prompt is
\* shown, the audio does not play, whatever keys and clicks arrive.
SilentUntilStartedFromPrompt == (Loading \/ media.clickToStartShown) => ~media.isPlaying

\* ------------------------------------------------------------------------
\* AudioPlayer: beat detection
\* ------------------------------------------------------------------------
\* AudioPlayer.beatThreshold, in tenths
beatThreshold == 12
\* AudioPlayer.minBeatInterval and maxBeatInterval, in ms
minBeatInterval == 300
maxBeatInterval == 1200
\* the samples detectBeat keeps in beatHistory
beatHistoryLength == 10

\* Date.now() when the player is constructed, in ms since the epoch; every
\* date later than 1.2 s after the epoch behaves like this one
PageLoad == 2000
\* the latest Date.now() of a behaviour
MaxNow == PageLoad + 2600
\* the ms between two detectBeat calls
BeatDeltas == {300, 500, 1300}
\* the sum getFrequencyRangeAverage divides, over the eight bass bins of one byte each
BeatBassLevels == {0, 255}
\* the calls the search for a beat looks ahead
BeatHorizon == 3

RECURSIVE SeqSum(_)
SeqSum(q) == IF q = <<>> THEN 0 ELSE Head(q) + SeqSum(Tail(q))

\* AudioPlayer.detectBeat at Date.now() = t with getBassLevel() = bass / 255
detectBeat(b, t, bass) ==
    LET pushed == Append(b.beatHistory, bass)
        history == IF Len(pushed) > beatHistoryLength THEN Tail(pushed) ELSE pushed
        timeSinceLastBeat == t - b.lastBeatTime
        detected == /\ bass * 10 * Len(history) > SeqSum(history) * beatThreshold
                    /\ timeSinceLastBeat >= minBeatInterval
                    /\ timeSinceLastBeat <= maxBeatInterval
    IN  [beatHistory |-> history,
         lastBeatTime |-> IF detected THEN t ELSE b.lastBeatTime,
         beatDetected |-> detected,
         now |-> t]

\* new AudioPlayer(): beatHistory = [], lastBeatTime = 0
InitBeat ==
    /\ beat = [beatHistory |-> <<>>, lastBeatTime |-> 0, beatDetected |-> FALSE,
               now |-> PageLoad]
    /\ NoApp /\ NoBoids /\ NoForEach /\ NoClouds /\ NoSandpile

\* getAudioAnalysis calls detectBeat dt ms after the call before
DetectBeat(dt, bass) ==
    /\ beat.now + dt <= MaxNow
    /\ beat' = detectBeat(beat, beat.now + dt, bass)
    /\ UNCHANGED <<appVars, boidVars, forEach, cloudsVars, sandVars, pending>>

NextBeat == \E dt \in BeatDeltas, bass \in BeatBassLevels : DetectBeat(dt, bass)

SpecBeat == InitBeat /\ [][NextBeat]_vars

\* some sequence of at most n later calls ends with a detected beat
RECURSIVE CanBeat(_, _)
CanBeat(b, n) ==
    /\ n > 0
    /\ \E dt \in BeatDeltas, bass \in BeatBassLevels :
          LET after == detectBeat(b, b.now + dt, bass)
          IN  after.beatDetected \/ CanBeat(after, n - 1)

\* C29: beat detection is never disabled for good: from every state of the
\* player some later bass inputs make detectBeat report a beat.
BeatStaysPossible == CanBeat(beat, BeatHorizon)

\* ------------------------------------------------------------------------
\* SandpileSimulation left alone: draw() after draw() without audio
\* ------------------------------------------------------------------------
\* the grid of the silent runs and the grains a cell starts with
SettleW == 3
SettleH == 2
SettleGrains == {3, 30}
\* draw() calls that are counted; later ones leave the count alone
MaxSettleFrames == 4

InitSettle ==
    /\ audioPlayer = FALSE
    /\ gridWidth = SettleW /\ gridHeight = SettleH
    /\ grid \in [0..(SettleH - 1) -> [0..(SettleW - 1) -> SettleGrains]]
    /\ InitFrame
    /\ InitOutsideSand

\* draw() without an audio player: updateAudioReactiveBehavior returns at once
SilentDrawBegin(dt) ==
    /\ pc = "idle"
    /\ ~audioPlayer
    /\ frames' = IF frames < MaxSettleFrames THEN frames + 1 ELSE frames
    /\ deltaTime' = dt
    /\ threw' = FALSE
    /\ audioAnalysis' = NullAnalysis
    /\ pc' = "topple"
    /\ stillToppling' = TRUE
    /\ safetyCounter' = 0
    /\ UNCHANGED <<grid, preGrid, waveLog, waveLost, audioVars, sandToAdd,
                   injected, quake, dimVars, outsideSand>>

NextSettle ==
    \/ \E dt \in DeltaTimes : SilentDrawBegin(dt)
    \/ CapScan
    \/ CapTopple
    \/ CapReturn
    \/ LoopExit
    \/ Render

\* the browser keeps calling draw()
SpecSettle == InitSettle /\ [][NextSettle]_vars /\ WF_vars(NextSettle)

\* every cell holds at most three grains
StableGrid == \A c \in Cells(gridWidth, gridHeight) : grid[c[2]][c[1]] <= 3

====
